---- MODULE Spec2Model ----
(***************************************************************************)
(* The Box integration page (src/app.js, src/unnamed/part_000): the query  *)
(* parameter reader, the token acquirer, the resource fetcher, the         *)
(* renderer and the Fetch / Verify buttons, as one state machine.          *)
(*                                                                         *)
(* Text is a sequence of chunks.  A chunk is one character of data ("<",   *)
(* "4", "a") or one whole literal of the script (a message, a piece of     *)
(* markup).  No literal of the script is one of the data characters, so a  *)
(* chunk "<" in a container is always a character that came from data.     *)
(***************************************************************************)
EXTENDS Integers, Sequences, FiniteSets, TLC

\* ------------------------------------------------------------------ bounds

\* Clicks on Fetch / Verify / Get Metadata in one behaviour.
MaxRuns == 2
\* Entries of a query string in the parameter-reader specification.
MaxQueryLen == 3
\* Clicks on Copy buttons in one behaviour of the copy specification.
MaxCopies == 2

\* ----------------------------------------------------------------- strings

\* JavaScript's undefined and null: the value of an absent field or parameter.
UNDEF == <<"#undefined">>

\* JavaScript truthiness of a string-or-undefined value.
Truthy(s) == s # UNDEF /\ s # <<>>

\* a || b
Or(a, b) == IF Truthy(a) THEN a ELSE b

\* String coercion in a template literal or a + concatenation.
ToStr(s) == IF s = UNDEF THEN <<"undefined">> ELSE s

RECURSIVE Digits(_)
\* The decimal digits of a natural number, one chunk each.
Digits(n) ==
    IF n < 10 THEN <<CASE n = 0 -> "0" [] n = 1 -> "1" [] n = 2 -> "2"
                       [] n = 3 -> "3" [] n = 4 -> "4" [] n = 5 -> "5"
                       [] n = 6 -> "6" [] n = 7 -> "7" [] n = 8 -> "8"
                       [] OTHER -> "9">>
    ELSE Digits(n \div 10) \o Digits(n % 10)

\* String.prototype.includes: pat occurs in s as a contiguous run of chunks.
Includes(s, pat) ==
    \E i \in 0..(Len(s) - Len(pat)) :
        \A j \in 1..Len(pat) : s[i + j] = pat[j]

\* div.textContent = text: null and undefined set the empty string.
textContent(text) == IF text = UNDEF THEN <<>> ELSE text

RECURSIVE escapeHtml(_)
\* div.textContent = text; return div.innerHTML: the serialisation of a text
\* node replaces &, < and > by their entities and leaves quotes as they are.
escapeHtml(text) ==
    IF text = <<>> THEN <<>>
    ELSE (CASE Head(text) = "&" -> <<"&", "a", "m", "p", ";">>
            [] Head(text) = "<" -> <<"&", "l", "t", ";">>
            [] Head(text) = ">" -> <<"&", "g", "t", ";">>
            [] OTHER -> <<Head(text)>>) \o escapeHtml(Tail(text))

\* ------------------------------------------------------------ byte counts

\* A byte count is a JSON number: here the sequence of its digits in base
\* 1024, the most significant first (1536 is <<1, 512>>, 0 is <<0>>).  The
\* value of a size field that is absent is NoSize.
UnitBase == 1024
NoSize == <<>>

\* const sizes = ['Bytes', 'KB', 'MB', 'GB', 'TB']; an index past the table
\* reads undefined.
sizes == <<"Bytes", "KB", "MB", "GB", "TB">>
\* A faulty variant: the table is read one entry too far.
UnitLabelShifted(i) == IF i + 2 \in DOMAIN sizes THEN sizes[i + 2] ELSE "undefined"

UnitLabel(i) == IF i + 1 \in DOMAIN sizes THEN sizes[i + 1] ELSE "undefined"

\* The byte count is within d of the next power of 1024 below it: all its
\* digits are the highest but the last, which is at least UnitBase - d.
JustBelowPower(bytes, d) ==
    /\ \A j \in 1..(Len(bytes) - 1) : bytes[j] = UnitBase - 1
    /\ bytes[Len(bytes)] >= UnitBase - d

\* Math.floor(Math.log(bytes) / Math.log(k)) in double arithmetic.  The
\* quotient is the exact logarithm but where the two logarithms round to the
\* same double: Math.log(1024^5 - d) equals Math.log(1024^5) for d = 1, 2, 3,
\* and so the quotient is 5 there.  Below the smaller powers of 1024 the
\* doubles still tell the logarithms apart.
UnitIndex(bytes) ==
    IF Len(bytes) = 5 /\ JustBelowPower(bytes, 3) THEN 5 ELSE Len(bytes) - 1

RECURSIVE CarryDown(_)
\* floor(100 * 0.d1 d2 ... ) carried digit by digit (base 1024).
CarryDown(ds) ==
    IF ds = <<>> THEN 0 ELSE (100 * Head(ds) + CarryDown(Tail(ds))) \div UnitBase

\* (bytes / Math.pow(k, i)).toFixed(2), as a count of hundredths: the scaled
\* value rounded to the nearest hundredth, a tie upwards.  The division by a
\* power of two is exact in doubles.
Hundredths(bytes, i) ==
    LET whole == IF i = Len(bytes) - 1 THEN Head(bytes) ELSE 0
        frac == IF i = Len(bytes) - 1 THEN Tail(bytes) ELSE bytes
    IN  100 * whole
          + (IF frac = <<>> THEN 0
             ELSE (100 * Head(frac) + CarryDown(Tail(frac)) + UnitBase \div 2) \div UnitBase)

\* A faulty variant: the two decimals of toFixed(2) are kept.
NumberTextFixed(h) ==
    Digits(h \div 100) \o <<".">> \o Digits((h % 100) \div 10) \o Digits(h % 10)

\* parseFloat("w.ff") + '': the number without trailing zeros of the fraction.
NumberText(h) ==
    Digits(h \div 100)
        \o (IF h % 100 = 0 THEN <<>>
            ELSE IF h % 10 = 0 THEN <<".">> \o Digits((h % 100) \div 10)
            ELSE <<".">> \o Digits((h % 100) \div 10) \o Digits(h % 10))

\* formatFileSize(bytes): [number, unit, text].
formatFileSize(bytes) ==
    IF bytes = <<0>>
    THEN [number |-> 0, unit |-> "Bytes", text |-> <<"0", " ", "Bytes">>]
    ELSE LET i == UnitIndex(bytes)
             h == Hundredths(bytes, i)
         IN  [number |-> h, unit |-> UnitLabel(i),
              text |-> NumberText(h) \o <<" ", UnitLabel(i)>>]

\* file.size ? this.formatFileSize(file.size) : 'Unknown'
fileSizeText(size) ==
    IF size # NoSize /\ size # <<0>> THEN formatFileSize(size).text ELSE <<"Unknown">>

\* Nothing formatted yet.
NoFormat == [number |-> 0, unit |-> "none", text |-> <<>>]

\* ------------------------------------------------------------ query string

\* A query string is the sequence of its <<key, value>> entries, in order,
\* as URLSearchParams(window.location.search).entries() yields them.
K_file_id == <<"file_id">>
K_client_id == <<"client_id">>
K_client_secret == <<"client_secret">>
K_auth_code == <<"auth_code">>

RECURSIVE getParameter(_, _)
\* URLSearchParams.get(key): the value of the first entry with that key, or null.
getParameter(q, k) ==
    IF q = <<>> THEN UNDEF
    ELSE IF Head(q)[1] = k THEN Head(q)[2]
    ELSE getParameter(Tail(q), k)

\* URLSearchParams.has(key)
hasParameter(q, k) == \E i \in 1..Len(q) : q[i][1] = k

RECURSIVE getParametersObject(_)
\* params[key] = value for each entry in order: a later entry overwrites.
getParametersObject(q) ==
    IF q = <<>> THEN <<>>
    ELSE LET rest == getParametersObject(SubSeq(q, 1, Len(q) - 1))
             e == q[Len(q)]
         IN  [k \in (DOMAIN rest) \cup {e[1]} |->
                 IF k = e[1] THEN e[2] ELSE rest[k]]

\* ------------------------------------------------------- upstream responses

\* What an awaited fetch() can settle to.  kind "reject": the promise rejects
\* (network failure, CORS).  kind "resp": a response with its status; json
\* says whether response.json() resolves, and body is what it resolves to.
NoTokenBody == [access_token |-> UNDEF, error_description |-> UNDEF, error |-> UNDEF]
TokenBody(t, d, e) == [access_token |-> t, error_description |-> d, error |-> e]
Reject(b) == [kind |-> "reject", status |-> 0, json |-> FALSE, body |-> b]
Resp(s, b) == [kind |-> "resp", status |-> s, json |-> TRUE, body |-> b]
BadJson(s, b) == [kind |-> "resp", status |-> s, json |-> FALSE, body |-> b]

Tokens == {<<"tok">>, <<"t2">>}

\* Answers of POST /oauth2/token.
TokenOutcomes ==
    { Reject(NoTokenBody), BadJson(200, NoTokenBody), BadJson(500, NoTokenBody),
      Resp(200, TokenBody(<<"tok">>, UNDEF, UNDEF)),
      Resp(201, TokenBody(<<"t2">>, UNDEF, UNDEF)),
      Resp(200, TokenBody(UNDEF, UNDEF, UNDEF)),
      Resp(200, TokenBody(UNDEF, <<"d", "0">>, <<"e", "0">>)),
      Resp(400, TokenBody(UNDEF, <<"d", "1">>, <<"e", "1">>)),
      Resp(401, TokenBody(UNDEF, UNDEF, <<"e", "2">>)),
      Resp(400, TokenBody(UNDEF, <<>>, <<"e", "3">>)),
      Resp(403, TokenBody(UNDEF, UNDEF, UNDEF)),
      Resp(401, TokenBody(UNDEF, UNDEF, <<"box_subject_id">>)) }

\* A file resource (the fields the renderers below read) or an error body.
NoFileBody == [id |-> UNDEF, name |-> UNDEF, size |-> NoSize, message |-> UNDEF,
               error |-> UNDEF, entries |-> <<>>, list |-> FALSE, next_marker |-> UNDEF]
File(i, n, z) == [id |-> i, name |-> n, size |-> z]
FileBody(i, n) == [NoFileBody EXCEPT !.id = i, !.name = n]
SizedFileBody(i, n, z) == [NoFileBody EXCEPT !.id = i, !.name = n, !.size = z]
ErrBody(m, e) == [NoFileBody EXCEPT !.message = m, !.error = e]
ListBody(fs) == [NoFileBody EXCEPT !.entries = fs, !.list = TRUE]
\* A list envelope that says there is a further page.
PagedListBody(fs, marker) ==
    [NoFileBody EXCEPT !.entries = fs, !.list = TRUE, !.next_marker = marker]

F1 == File(<<"4", "2">>, <<"report.pdf">>, <<2, 0>>)
F2 == File(<<"<", "7">>, <<"<", "b", ">", "&">>, <<0>>)

\* Answers of GET /2.0/files/{id}.
FileOutcomes ==
    { Reject(NoFileBody), BadJson(200, NoFileBody), BadJson(502, NoFileBody),
      Resp(200, SizedFileBody(F1.id, F1.name, F1.size)),
      Resp(200, FileBody(F2.id, F2.name)),
      Resp(200, SizedFileBody(UNDEF, UNDEF, <<0>>)),
      Resp(200, NoFileBody),
      Resp(404, ErrBody(<<"m", "1">>, <<"e", "1">>)),
      Resp(403, ErrBody(UNDEF, <<"e", "2">>)),
      Resp(404, ErrBody(UNDEF, UNDEF)),
      Resp(404, ErrBody(<<"4", "0", "1">>, UNDEF)) }

\* Answers of GET /2.0/files?limit=100&fields=...
ListOutcomes ==
    { Reject(NoFileBody), BadJson(200, NoFileBody),
      Resp(200, PagedListBody(<<F1>>, <<"m", "k">>)),
      Resp(200, ListBody(<<F2, F1>>)),
      Resp(200, ListBody(<<>>)),
      Resp(200, NoFileBody),
      Resp(403, ErrBody(<<"m", "1">>, UNDEF)),
      Resp(500, ErrBody(UNDEF, UNDEF)) }

\* Answers of GET /2.0/users/me (name stands for the user fields rendered).
UserOutcomes ==
    { Reject(NoFileBody), BadJson(200, NoFileBody),
      Resp(200, FileBody(<<"9">>, <<"u">>)),
      Resp(200, FileBody(<<"9">>, <<"<", "i", ">">>)),
      Resp(200, NoFileBody),
      Resp(401, ErrBody(<<"m", "1">>, UNDEF)),
      Resp(403, ErrBody(UNDEF, UNDEF)) }

\* What the browser throws: fetch() rejecting, response.json() failing.
ExcNetwork == <<"Failed to fetch">>
ExcJson == <<"Unexpected token in JSON">>

\* ------------------------------------------------------------ token acquirer

\* What a call or one step of it ends in: a returned body, a thrown error
\* (its message), or, inside the loop of getAccessToken, the next method.
Return(b) == [kind |-> "return", body |-> b, msg |-> <<>>]
Throw(m) == [kind |-> "throw", body |-> NoTokenBody, msg |-> m]
NextMethod == [kind |-> "next", body |-> NoTokenBody, msg |-> <<>>]
NoResult == [kind |-> "none", body |-> NoTokenBody, msg |-> <<>>]
\* The function ran off its end: the caller gets undefined.
ReturnsNothing == [kind |-> "undefined", body |-> NoTokenBody, msg |-> <<>>]
\* The caller's tokenResponse.access_token read on undefined.
ExcUndefined == <<"Cannot read properties of undefined (reading 'access_token')">>

\* A faulty variant: only 200 counts as success.
ResponseOkOnly200(o) == o.status = 200

\* response.ok
ResponseOk(o) == o.status >= 200 /\ o.status <= 299

\* The grant shapes of the two-method getAccessToken, in the order tried.
authMethods == <<"plain", "enterprise">>

\* A faulty variant: every method is taken for the last one.
IsLastMethodAlways(i) == TRUE

\* A faulty variant: no method is taken for the last one.
IsLastMethodNever(i) == FALSE

\* i === authMethods.length - 1 (i counts from 1 here)
IsLastMethod(i) == i = Len(authMethods)

\* A faulty variant: the error token first.
TokenRequestFailedErrorFirst(o) ==
    <<"Token request failed: ">> \o Digits(o.status) \o <<" - ">>
        \o ToStr(Or(o.body.error, o.body.error_description))

\* `Token request failed: ${response.status} - ${errorData.error_description || errorData.error}`
TokenRequestFailed(o) ==
    <<"Token request failed: ">> \o Digits(o.status) \o <<" - ">>
        \o ToStr(Or(o.body.error_description, o.body.error))

\* A faulty variant: the catch block rethrows in every pass.
getAccessTokenAttemptRethrows(i, o) ==
    IF o.kind = "reject" THEN Throw(ExcNetwork)
    ELSE IF ~o.json THEN Throw(ExcJson)
    ELSE IF ResponseOk(o) THEN Return(o.body)
    ELSE IF IsLastMethod(i) THEN Throw(TokenRequestFailed(o))
    ELSE NextMethod

\* One pass of the loop of the two-method getAccessToken: attempt i has
\* settled to o.  An exception (the fetch rejects, response.json() fails) and a
\* non-success response are both swallowed unless i is the last method.
getAccessTokenAttempt(i, o) ==
    IF o.kind = "reject" THEN (IF IsLastMethod(i) THEN Throw(ExcNetwork) ELSE NextMethod)
    ELSE IF ~o.json THEN (IF IsLastMethod(i) THEN Throw(ExcJson) ELSE NextMethod)
    ELSE IF ResponseOk(o) THEN Return(o.body)
    ELSE IF IsLastMethod(i) THEN Throw(TokenRequestFailed(o))
    ELSE NextMethod

\* A faulty variant: the message does not say which parameter is missing.
AuthCodeRequiredUnnamed == <<"Authorization code is required.">>

\* The message getAccessToken throws when the page has no auth_code.
AuthCodeRequired ==
    <<"Authorization code is required. Please ensure the ", "auth_code",
      " parameter is present in the URL.">>

\* getAccessToken of the authorization-code variant, after its one request.
getAccessTokenAuthCode(o) ==
    IF o.kind = "reject" THEN Throw(ExcNetwork)
    ELSE IF ~o.json THEN Throw(ExcJson)
    ELSE IF ~ResponseOk(o) THEN Throw(TokenRequestFailed(o))
    ELSE Return(o.body)

\* A faulty variant: the token check is left out.
FailedToGetAccessTokenNever(body) == Return(body)

\* if (!tokenResponse.access_token) throw new Error('Failed to get access token: ' + ...)
FailedToGetAccessToken(body) ==
    IF ~Truthy(body.access_token)
    THEN Throw(<<"Failed to get access token: ">>
                 \o Or(body.error_description, <<"Unknown error">>))
    ELSE Return(body)

\* ---------------------------------------------------------- resource fetcher

ReturnFile(b) == [kind |-> "return", body |-> b, msg |-> <<>>]
ThrowFile(m) == [kind |-> "throw", body |-> NoFileBody, msg |-> m]

\* `File metadata request failed: ${response.status} - ${errorData.message || errorData.error}`
getFileMetadata(o) ==
    IF o.kind = "reject" THEN ThrowFile(ExcNetwork)
    ELSE IF ~o.json THEN ThrowFile(ExcJson)
    ELSE IF ~ResponseOk(o)
    THEN ThrowFile(<<"File metadata request failed: ">> \o Digits(o.status) \o <<" - ">>
                     \o ToStr(Or(o.body.message, o.body.error)))
    ELSE ReturnFile(o.body)

\* `${response.status} - ${errorData.message || errorData.error || 'Unknown error'}`
\* the inline GET of the authorization-code variant, and of users/me.
fetchInline(o) ==
    IF o.kind = "reject" THEN ThrowFile(ExcNetwork)
    ELSE IF ~o.json THEN ThrowFile(ExcJson)
    ELSE IF ~ResponseOk(o)
    THEN ThrowFile(Digits(o.status) \o <<" - ">>
                     \o Or(Or(o.body.message, o.body.error), <<"Unknown error">>))
    ELSE ReturnFile(o.body)

\* `Failed to fetch files: ${response.status} - ${... || 'Unknown error'}`
listAllFiles(o) ==
    IF o.kind = "reject" THEN ThrowFile(ExcNetwork)
    ELSE IF ~o.json THEN ThrowFile(ExcJson)
    ELSE IF ~ResponseOk(o)
    THEN ThrowFile(<<"Failed to fetch files: ">> \o Digits(o.status) \o <<" - ">>
                     \o Or(Or(o.body.message, o.body.error), <<"Unknown error">>))
    ELSE ReturnFile(o.body)

\* ------------------------------------------------------------------ renderer

\* The content of the display container (metadata-container, or
\* files-container in the authorization-code variant) after one assignment to
\* innerHTML: html is the string assigned; handlers are the Get Metadata
\* buttons in it, each with the arguments of its onclick; render names the
\* template.
Content(r, h, hs) == [render |-> r, html |-> h, handlers |-> hs]

\* Before the first operation (index.html is not part of the sources).
InitialContent == Content("initial", <<>>, <<>>)

\* showMetadataError / showFilesError
showMetadataError(message) ==
    Content("error", <<"<div class=\"error\">">> \o escapeHtml(message) \o <<"</div>">>, <<>>)

\* The loading placeholder of fetchFileMetadata and verifyTokenPermissions.
LoadingContent(v, op) ==
    Content("loading",
            IF op = "verify"
            THEN <<"<div class=\"loading\">Verifying token permissions...</div>">>
            ELSE IF v = "list"
            THEN <<"<div class=\"loading\">Fetching files from Box API...</div>">>
            ELSE <<"<div class=\"loading\">Fetching file metadata from Box API...</div>">>,
            <<>>)

\* The fixed (key, label) list of the field-list displayFileMetadata, for the
\* keys a file resource of this model carries.
metadataFields == << [key |-> "id", label |-> "File ID"],
                     [key |-> "name", label |-> "File Name"],
                     [key |-> "size", label |-> "Size (bytes)"] >>

\* A faulty variant: a value counts only when it is truthy.
HasValueTruthy(key, value) ==
    IF key = "size" THEN value # NoSize /\ value # <<0>> ELSE Truthy(value)

\* value !== undefined && value !== null, for the value of the field key.
HasValue(key, value) == IF key = "size" THEN value # NoSize ELSE value # UNDEF

RECURSIVE metadataRows(_, _)
\* metadataFields.forEach: one row per field whose value is neither undefined
\* nor null, the value escaped in the text and in the copy handler.
metadataRows(metadata, fields) ==
    IF fields = <<>> THEN <<>>
    ELSE LET value == metadata[Head(fields).key]
             displayValue == IF Head(fields).key = "size"
                             THEN formatFileSize(value).text ELSE value
         IN  (IF HasValue(Head(fields).key, value)
              THEN <<"<div class=\"metadata-item\"><span class=\"metadata-name\">",
                     Head(fields).label, ":</span><span class=\"metadata-value\">">>
                   \o escapeHtml(displayValue)
                   \o <<"</span><button class=\"copy-button\" onclick=\"boxApp.copyMetadataValue('">>
                   \o escapeHtml(displayValue) \o <<"')\">Copy</button></div>">>
              ELSE <<>>)
             \o metadataRows(metadata, Tail(fields))

\* displayFileMetadata of the single-fetch and list variants.
displayFileMetadata(metadata) ==
    LET rows == metadataRows(metadata, metadataFields)
    IN  IF rows = <<>>
        THEN Content("empty",
                 <<"<div class=\"loading\">No metadata available for this file.</div>">>, <<>>)
        ELSE Content("detail", rows, <<>>)

\* displayFileMetadata of the authorization-code variant (the strict view):
\* name, owner and description go through escapeHtml, the other values do not.
displayFileMetadataStrict(file) ==
    IF ~Truthy(file.id)
    THEN Content("empty",
             <<"<div class=\"loading\">No file metadata found or accessible.</div>">>, <<>>)
    ELSE Content("detail",
             <<"<div class=\"files-header\">File Metadata</div><div class=\"file-name\">">>
             \o escapeHtml(textContent(file.name))
             \o <<"</div><span class=\"file-id\">ID: ">> \o file.id
             \o <<"</span><span class=\"file-size\">Size: ">> \o fileSizeText(file.size)
             \o <<"</span><span>Type: Unknown ... Tags: None</span><p>">>
             \o escapeHtml(<<"No description">>)
             \o <<"</p><button class=\"copy-button\" onclick=\"boxApp.copyToClipboard('file-id-">>
             \o file.id \o <<"')\" data-file-id=\"">> \o file.id \o <<"\">Copy ID</button>">>,
             <<>>)

RECURSIVE filesRows(_, _)
\* files.forEach of displayFilesList: the name escaped; the id and the access
\* token written as they are into the text and the onclick handlers.
filesRows(files, accessToken) ==
    IF files = <<>> THEN <<>>
    ELSE LET file == Head(files)
         IN  <<"<div class=\"file-item\"><div class=\"file-name\">">>
             \o escapeHtml(textContent(file.name))
             \o <<"</div><span class=\"file-id\">ID: ">> \o ToStr(file.id)
             \o <<"</span><span class=\"file-size\">Size: ">> \o fileSizeText(file.size)
             \o <<"</span><span>Type: undefined ... Modified: Unknown</span>",
                   "<button class=\"metadata-button\" onclick=\"boxApp.getFileMetadataForDisplay('">>
             \o ToStr(file.id) \o <<"', '">> \o accessToken
             \o <<"')\">Get Metadata</button><button class=\"copy-button\" onclick=\"boxApp.copyToClipboard('file-id-">>
             \o ToStr(file.id) \o <<"')\">Copy ID</button></div>">>
             \o filesRows(Tail(files), accessToken)

\* displayFilesList(filesData.entries, accessToken); listed says whether the
\* envelope had an entries member at all.
displayFilesList(files, listed, accessToken) ==
    IF ~listed \/ Len(files) = 0
    THEN Content("empty",
             <<"<div class=\"loading\">No files found or accessible to the application.</div>">>,
             <<>>)
    ELSE Content("list",
             <<"<div class=\"files-header\"><h3>Files List (">> \o Digits(Len(files))
             \o <<" files)</h3></div>">> \o filesRows(files, accessToken),
             [i \in 1..Len(files) |->
                 [fileId |-> ToStr(files[i].id), token |-> accessToken]])

\* The user information of verifyTokenPermissions: no value is escaped.
displayUserInfo(userInfo) ==
    Content("user",
        <<"<div class=\"files-header\">Token Verification</div><span>Name: ">>
        \o Or(userInfo.name, <<"N/A">>)
        \o <<"</span><span>Login: N/A</span><span>ID: ">>
        \o Or(userInfo.id, <<"N/A">>) \o <<"</span>">>,
        <<>>)

\* The placeholder getFileMetadataForDisplay writes first.
DisplayLoadingContent(fileId) ==
    Content("loading",
        <<"<div class=\"loading\">Fetching metadata for file ID: ">> \o fileId
        \o <<"...</div>">>, <<>>)

\* ------------------------------------------------------- the action handlers

\* 'Client ID and Client Secret are required. ...'
ClientRequired ==
    <<"Client ID and Client Secret are required. Please add ", "client_id", " and ",
      "client_secret", " parameters to the URL.">>

\* 'File ID is required. ...'
FileRequired ==
    <<"File ID is required. Please add ", "file_id", " parameter to the URL.">>

\* A faulty variant: only client_id is looked at.
MissingParameterIdOnly(v, op, fileId, clientId, clientSecret) ==
    IF ~Truthy(clientId) THEN ClientRequired ELSE <<>>

\* The guards at the head of fetchFileMetadata and verifyTokenPermissions: the
\* message of the first guard that fails, or the empty string when all pass.
MissingParameter(v, op, fileId, clientId, clientSecret) ==
    IF op = "verify"
    THEN (IF ~Truthy(clientId) \/ ~Truthy(clientSecret) THEN ClientRequired ELSE <<>>)
    ELSE IF v = "single"
    THEN (IF ~Truthy(fileId) THEN FileRequired
          ELSE IF ~Truthy(clientId) \/ ~Truthy(clientSecret) THEN ClientRequired
          ELSE <<>>)
    ELSE IF v = "authcode"
    THEN (IF ~Truthy(clientId) \/ ~Truthy(clientSecret) THEN ClientRequired
          ELSE IF ~Truthy(fileId) THEN FileRequired
          ELSE <<>>)
    ELSE (IF ~Truthy(clientId) \/ ~Truthy(clientSecret) THEN ClientRequired ELSE <<>>)

P401 == <<"4", "0", "1">>
P403 == <<"4", "0", "3">>
P404 == <<"4", "0", "4">>
P400 == <<"4", "0", "0">>
PSubject == <<"box_subject_id">>

\* The guidance texts of the catch blocks.
ConfigurationGuidance(v) ==
    IF v = "authcode"
    THEN <<"Authentication error: Please check your Box application configuration.">>
    ELSE <<"Authentication error: Please check your Box application configuration. The app may need enterprise access or different authentication settings.">>
CredentialGuidance ==
    <<"Authentication failed: Please verify your client_id and client_secret are correct.">>
PermissionGuidance(v, op) ==
    IF op = "verify"
    THEN <<"Access denied: The application may not have sufficient permissions.">>
    ELSE IF v = "single"
    THEN <<"Access denied: The application may not have permission to access this file or the Box API.">>
    ELSE IF v = "authcode"
    THEN <<"Access denied: The application may not have permission to access this file.">>
    ELSE <<"Access denied: The application may not have permission to access files or the Box API.">>
NotFoundGuidance(v) ==
    IF v = "single"
    THEN <<"File not found: The specified file_id does not exist or is not accessible.">>
    ELSE IF v = "authcode"
    THEN <<"File not found: The file may not exist or the application may not have access to it.">>
    ELSE <<"Files not found: The application may not have access to any files.">>
BadRequestGuidance ==
    <<"Bad request: The API request format may be incorrect. Check console for details.">>

\* The "more helpful" message of each catch block: the first pattern that the
\* error's message includes decides; none leaves the message as it is.
friendlyMessage(v, op, errorMessage) ==
    IF op = "verify"
    THEN (IF Includes(errorMessage, P401) THEN CredentialGuidance
          ELSE IF Includes(errorMessage, P403) THEN PermissionGuidance(v, op)
          ELSE errorMessage)
    ELSE IF Includes(errorMessage, PSubject) THEN ConfigurationGuidance(v)
    ELSE IF Includes(errorMessage, P401) THEN CredentialGuidance
    ELSE IF Includes(errorMessage, P403) THEN PermissionGuidance(v, op)
    ELSE IF Includes(errorMessage, P404) THEN NotFoundGuidance(v)
    ELSE IF v = "authcode" /\ Includes(errorMessage, P400) THEN BadRequestGuidance
    ELSE errorMessage

\* What each catch block puts before the message.
ErrorPrefix(v, op) ==
    IF op = "verify" THEN <<"Failed to verify permissions: ">>
    ELSE IF v = "list" THEN <<"Failed to fetch files: ">>
    ELSE <<"Failed to fetch file metadata: ">>

\* The catch block: what it writes into the container.
catchContent(v, op, errorMessage) ==
    showMetadataError(ErrorPrefix(v, op) \o friendlyMessage(v, op, errorMessage))

\* The catch block of getFileMetadataForDisplay.
displayCatchContent(fileId, errorMessage) ==
    showMetadataError(<<"Failed to fetch metadata for file ">> \o fileId \o <<": ">>
                        \o errorMessage)

\* The labels the scripts give the buttons.
IdleLabel(v, op) ==
    IF op = "verify" THEN "Verify Permissions"
    ELSE IF v = "single" THEN "Fetch File Metadata"
    ELSE IF v = "authcode" THEN "Get File Metadata"
    ELSE "Fetch Files & Metadata"
LoadingLabel(op) == IF op = "verify" THEN "Verifying..." ELSE "Fetching..."

\* button.disabled = true; button.textContent = ...
loadingButton(op) == [disabled |-> TRUE, label |-> LoadingLabel(op)]

\* A faulty variant: the button is reset at the end of the try block only.
finallyButtonTryOnly(v, op, threw) ==
    IF threw THEN loadingButton(op) ELSE [disabled |-> FALSE, label |-> IdleLabel(v, op)]

\* The finally block: whether or not the try block threw.
finallyButton(v, op, threw) == [disabled |-> FALSE, label |-> IdleLabel(v, op)]

\* --------------------------------------------------------------------- state

VARIABLES
    variant,    \* which script the page runs: "single", "authcode" or "list"
    query,      \* window.location.search, as its entries
    button,     \* the Fetch and Verify buttons: disabled, label
    container,  \* the display container's content
    pc,         \* per operation: "idle", or the request it awaits
    loc,        \* per operation: its locals (i, the token, fileId) and which
                \* invocation of the behaviour it is (run)
    timers,     \* setTimeout callbacks of the list variant, pending or awaiting
    runs,       \* invocations so far
    att,        \* per operation: the outcomes of this run's token attempts
    tokres,     \* per operation: what this run's getAccessToken ended in
    err,        \* per operation: the error this run's catch block caught
    res,        \* per operation: the outcome of this run's resource request
    sent,       \* per operation: the requests this run has sent, in order
    lookup,     \* the parameter reader's last answers (parameter specification)
    copyButton, \* the Copy buttons: label (textContent), background (style)
    clipboard,  \* the text on the system clipboard
    feedback,   \* the setTimeout callbacks of showCopyFeedback, in firing order
    copies,     \* the copy actions so far: text, and how each has ended
    sizeIn,     \* the byte counts handed to formatFileSize (size specification)
    sizeOut,    \* what formatFileSize returned for each of them
    search,     \* window.location.search without its "?", as written
    document,   \* whether DOMContentLoaded has fired, whether the elements
                \* displayParameters needs are in the document, and the
                \* popstate events so far (moves)
    parameters, \* the parameters-container element
    currentUrl, \* the text of the current-url element
    copied      \* the last click on a parameter row's Copy button

\* The state the copy handlers work on.
copyVars == <<copyButton, clipboard, feedback, copies>>

\* The state of the size specification.
sizeVars == <<sizeIn, sizeOut>>

\* The state of the parameter display.
pageVars == <<search, document, parameters, currentUrl, copied>>

vars == <<variant, query, button, container, pc, loc, timers, runs, att, tokres,
          err, res, sent, lookup, copyVars, sizeVars, pageVars>>

Variants == {"single", "authcode", "list"}
Ops == {"fetch", "verify", "display"}
Buttons == {"fetch", "verify"}

NoLoc == [i |-> 0, token |-> UNDEF, fileId |-> UNDEF, run |-> 0]
NoErr == [caught |-> FALSE, msg |-> <<>>]
NoRes == [kind |-> "none", status |-> 0, json |-> FALSE, body |-> NoFileBody]
NoLookup == [key |-> UNDEF, get |-> UNDEF, has |-> FALSE, obj |-> <<>>]

\* A request on the wire.
\* limit=100 in the address of the list request.
ListLimit == 100

\* limit is the page size asked for, 0 where the request has none.
TokenRequest(grant) ==
    [kind |-> "token", grant |-> grant, bearer |-> UNDEF, fileId |-> UNDEF, limit |-> 0]
\* A faulty variant: the request goes out without the token.
ResourceRequestUnauthenticated(kind, token, fileId) ==
    [kind |-> kind, grant |-> "none", bearer |-> UNDEF, fileId |-> fileId,
     limit |-> IF kind = "list" THEN ListLimit ELSE 0]

ResourceRequest(kind, token, fileId) ==
    [kind |-> kind, grant |-> "none", bearer |-> token, fileId |-> fileId,
     limit |-> IF kind = "list" THEN ListLimit ELSE 0]

\* The entries of a page's query string: each recognised key absent, empty or
\* set, in a fixed order.
Entry(k, v) == IF v = UNDEF THEN <<>> ELSE << <<k, v>> >>
PageQueries(v) ==
    { Entry(K_file_id, f) \o Entry(K_client_id, c) \o Entry(K_client_secret, x)
        \o Entry(K_auth_code, a) :
        f \in {UNDEF, <<"4", "2">>},
        c \in {UNDEF, <<>>, <<"a", "b", "c">>},
        x \in {UNDEF, <<>>, <<"x", "y", "z">>},
        a \in IF v = "authcode" THEN {UNDEF, <<>>, <<"c", "d">>} ELSE {UNDEF} }

\* The arguments the rendered Copy buttons pass to copyToClipboard: the
\* current-url element, parameter keys, and (authorization-code and list
\* variants) a listed file's id.  A button is known by its argument; the
\* Copy button of a metadata row calls copyMetadataValue with the row's value.
CurrentUrl == <<"current-url">>
FileIdPrefix == <<"file-id-">>
MetadataRow == <<"metadata-row">>
AllCopyIds == {CurrentUrl, <<"a">>, <<"b">>, FileIdPrefix \o F1.id, MetadataRow}
CopyIds(v) ==
    {CurrentUrl, <<"a">>, <<"b">>}
        \cup (IF v \in {"authcode", "list"} THEN {FileIdPrefix \o F1.id} ELSE {})

\* A Copy button as rendered: its label, and no inline background.
IdleCopyButton == [label |-> "Copy", background |-> ""]

RECURSIVE QueryText(_)
\* The entries of a query string as they stand in the address.
QueryText(q) ==
    IF q = <<>> THEN <<>>
    ELSE Head(q)[1] \o <<"=">> \o Head(q)[2]
         \o (IF Len(q) > 1 THEN <<"&">> ELSE <<>>) \o QueryText(Tail(q))

\* window.location.href
LocationHref(q) ==
    <<"https://host/index.html">> \o (IF q = <<>> THEN <<>> ELSE <<"?">> \o QueryText(q))

\* -------------------------------------------------- the parameter display

RECURSIVE Split(_, _)
\* The pieces of text between the occurrences of the separator.
Split(text, sep) ==
    IF \A j \in 1..Len(text) : text[j] # sep THEN <<text>>
    ELSE LET i == CHOOSE j \in 1..Len(text) :
                      text[j] = sep /\ \A l \in 1..(j - 1) : text[l] # sep
         IN  <<SubSeq(text, 1, i - 1)>> \o Split(SubSeq(text, i + 1, Len(text)), sep)

\* One piece of a query string as an entry: the name before its first "=",
\* the value after it (the empty string when the piece has no "=").
SearchEntry(piece) ==
    LET halves == Split(piece, "=")
    IN  <<halves[1], IF Len(halves) = 1 THEN <<>>
                     ELSE SubSeq(piece, Len(halves[1]) + 2, Len(piece))>>

RECURSIVE SearchEntries(_)
SearchEntries(pieces) ==
    IF pieces = <<>> THEN <<>>
    ELSE (IF Head(pieces) = <<>> THEN <<>> ELSE <<SearchEntry(Head(pieces))>>)
         \o SearchEntries(Tail(pieces))

\* new URLSearchParams(window.location.search): the pieces between "&" that
\* are not empty, each split at its first "=".  (The texts here have no "+"
\* and no percent escape, which is all the decoding there is.)
URLSearchParams(text) == SearchEntries(Split(text, "&"))

\* What the document holds before displayParameters has written to it.
InitialParameters == [html |-> <<"#static">>, rows |-> <<>>, handlers |-> <<>>]
InitialUrlText == <<"#static">>

NoParameters == <<"<div class=\"no-parameters\">No query parameters found in the URL.</div>">>

\* createParameterItem(key, value): the markup of one row.
createParameterItem(key, value) ==
    <<"<div class=\"parameter-item\"><span class=\"parameter-name\">">> \o escapeHtml(key)
        \o <<":</span><span class=\"parameter-value\">">> \o escapeHtml(value)
        \o <<"</span><button class=\"copy-button\" onclick=\"boxApp.copyToClipboard('">>
        \o escapeHtml(key) \o <<"')\">Copy</button></div>">>

RECURSIVE parametersHtml(_)
\* The loop of displayParameters over urlParams.entries().
parametersHtml(q) ==
    IF q = <<>> THEN <<>>
    ELSE createParameterItem(Head(q)[1], Head(q)[2]) \o parametersHtml(Tail(q))

\* A faulty variant: a key is shown once, with its first value.
ShownEntriesOncePerKey(q) ==
    SelectSeq(q, LAMBDA e : e[2] = getParameter(q, e[1]))

\* The entries displayParameters walks: all of them, in order.
ShownEntries(q) == q

\* The parameters-container after displayParameters has written it: its
\* markup, the texts of its rows (name and value spans) and the argument each
\* row's Copy button passes to copyToClipboard.
parametersContent(q) ==
    IF QueryText(q) = <<>>
    THEN [html |-> NoParameters, rows |-> <<>>, handlers |-> <<>>]
    ELSE [html |-> parametersHtml(ShownEntries(q)),
          rows |-> [j \in 1..Len(ShownEntries(q)) |->
                       [name |-> ShownEntries(q)[j][1] \o <<":">>,
                        value |-> ShownEntries(q)[j][2]]],
          handlers |-> [j \in 1..Len(ShownEntries(q)) |-> ShownEntries(q)[j][1]]]

\* displayParameters(): returns at once when a required element is missing,
\* else writes the address and the rows.
displayParameters(doc, q, old) ==
    IF ~doc.elements THEN old
    ELSE [parameters |-> parametersContent(q), currentUrl |-> LocationHref(q)]

NoCopied == [row |-> 0, shown |-> UNDEF, text |-> UNDEF]

\* The parameter display of a page that has loaded with all its elements.
PageLoaded ==
    /\ search = QueryText(query)
    /\ document = [ready |-> TRUE, elements |-> TRUE, moves |-> 0]
    /\ parameters = parametersContent(query)
    /\ currentUrl = LocationHref(query)
    /\ copied = NoCopied

\* The handlers' state after construction: nothing invoked, nothing copied.
InitHandlers ==
    /\ button = [b \in Buttons |-> [disabled |-> FALSE, label |-> IdleLabel(variant, b)]]
    /\ container = InitialContent
    /\ pc = [p \in Ops |-> "idle"]
    /\ loc = [p \in Ops |-> NoLoc]
    /\ timers = {}
    /\ runs = 0
    /\ att = [p \in Ops |-> <<>>]
    /\ tokres = [p \in Ops |-> NoResult]
    /\ err = [p \in Ops |-> NoErr]
    /\ res = [p \in Ops |-> NoRes]
    /\ sent = [p \in Ops |-> <<>>]
    /\ lookup = NoLookup
    /\ copyButton = [b \in AllCopyIds |-> IdleCopyButton]
    /\ clipboard = UNDEF
    /\ feedback = <<>>
    /\ copies = <<>>
    /\ sizeOut = <<NoFormat, NoFormat>>

InitPage ==
    /\ PageLoaded
    /\ InitHandlers

Init ==
    /\ variant \in Variants
    /\ query \in PageQueries(variant)
    /\ InitPage
    /\ sizeIn = <<NoSize, NoSize>>

\* The grant shape of the i-th token request.
Grant(v, i) == IF v = "authcode" THEN "authcode" ELSE authMethods[i]

\* A faulty variant: fetchFileMetadata lists the files in every variant.
ResourceKindAlwaysList(v, op) == IF op = "verify" THEN "user" ELSE "list"

\* The resource an operation asks for once it has a token.
ResourceKind(v, op) ==
    IF op = "verify" THEN "user" ELSE IF v = "list" THEN "list" ELSE "file"

\* A faulty variant: the catch block leaves a container alone that another
\* operation has written since this one put its placeholder there.
CaughtUnlessOverwritten(op, m) ==
    /\ container' = (IF container = LoadingContent(variant, op)
                     THEN catchContent(variant, op, m) ELSE container)
    /\ err' = [err EXCEPT ![op] = [caught |-> TRUE, msg |-> m]]
    /\ button' = [button EXCEPT ![op] = finallyButton(variant, op, TRUE)]
    /\ pc' = [pc EXCEPT ![op] = "idle"]

\* A faulty variant: the catch block adds its error to what the container
\* holds.
CaughtAppends(op, m) ==
    /\ container' = Content("error", container.html \o catchContent(variant, op, m).html,
                            container.handlers)
    /\ err' = [err EXCEPT ![op] = [caught |-> TRUE, msg |-> m]]
    /\ button' = [button EXCEPT ![op] = finallyButton(variant, op, TRUE)]
    /\ pc' = [pc EXCEPT ![op] = "idle"]

\* The end of an operation that threw: catch, then finally.
Caught(op, m) ==
    /\ container' = catchContent(variant, op, m)
    /\ err' = [err EXCEPT ![op] = [caught |-> TRUE, msg |-> m]]
    /\ button' = [button EXCEPT ![op] = finallyButton(variant, op, TRUE)]
    /\ pc' = [pc EXCEPT ![op] = "idle"]

\* fetchFileMetadata / verifyTokenPermissions up to their first await.
Start(op) ==
    /\ pc[op] = "idle"
    /\ ~button[op].disabled
    /\ runs < MaxRuns
    /\ runs' = runs + 1
    /\ att' = [att EXCEPT ![op] = <<>>]
    /\ res' = [res EXCEPT ![op] = NoRes]
    /\ LET fileId == getParameter(query, K_file_id)
           clientId == getParameter(query, K_client_id)
           clientSecret == getParameter(query, K_client_secret)
           missing == MissingParameter(variant, op, fileId, clientId, clientSecret)
       IN  IF missing # <<>>
           THEN /\ container' = showMetadataError(missing)
                /\ sent' = [sent EXCEPT ![op] = <<>>]
                /\ tokres' = [tokres EXCEPT ![op] = NoResult]
                /\ err' = [err EXCEPT ![op] = NoErr]
                /\ loc' = [loc EXCEPT ![op] = NoLoc]
                /\ UNCHANGED <<button, pc>>
           ELSE IF variant = "authcode" /\ ~Truthy(getParameter(query, K_auth_code))
           THEN /\ Caught(op, AuthCodeRequired)
                /\ sent' = [sent EXCEPT ![op] = <<>>]
                /\ tokres' = [tokres EXCEPT ![op] = Throw(AuthCodeRequired)]
                /\ loc' = [loc EXCEPT ![op] = NoLoc]
           ELSE /\ button' = [button EXCEPT ![op] = loadingButton(op)]
                /\ container' = LoadingContent(variant, op)
                /\ sent' = [sent EXCEPT ![op] = <<TokenRequest(Grant(variant, 1))>>]
                /\ tokres' = [tokres EXCEPT ![op] = NoResult]
                /\ err' = [err EXCEPT ![op] = NoErr]
                /\ loc' = [loc EXCEPT ![op] = [i |-> 1, token |-> UNDEF, fileId |-> fileId,
                                                 run |-> runs + 1]]
                /\ pc' = [pc EXCEPT ![op] = "token"]
    /\ UNCHANGED <<variant, query, timers, lookup, copyVars, sizeVars, pageVars>>

\* A click on the Fetch button.
FetchClick == Start("fetch")

\* A click on the Verify button (the authorization-code variant has one).
VerifyClick == variant = "authcode" /\ Start("verify")

\* The awaited token request of op settles to o.
TokenSettle(op, o) ==
    /\ pc[op] = "token"
    /\ att' = [att EXCEPT ![op] = Append(@, o)]
    /\ LET step == IF variant = "authcode" THEN getAccessTokenAuthCode(o)
                   ELSE getAccessTokenAttempt(loc[op].i, o)
           chk == FailedToGetAccessToken(step.body)
       IN  IF step.kind = "next" /\ loc[op].i < Len(authMethods)
           THEN /\ loc' = [loc EXCEPT ![op].i = @ + 1]
                /\ sent' = [sent EXCEPT ![op] =
                               Append(@, TokenRequest(Grant(variant, loc[op].i + 1)))]
                /\ UNCHANGED <<tokres, err, button, container, pc>>
           ELSE IF step.kind = "next"
           THEN /\ tokres' = [tokres EXCEPT ![op] = ReturnsNothing]
                /\ Caught(op, ExcUndefined)
                /\ UNCHANGED <<loc, sent>>
           ELSE IF step.kind = "throw"
           THEN /\ tokres' = [tokres EXCEPT ![op] = step]
                /\ Caught(op, step.msg)
                /\ UNCHANGED <<loc, sent>>
           ELSE IF chk.kind = "throw"
           THEN /\ tokres' = [tokres EXCEPT ![op] = step]
                /\ Caught(op, chk.msg)
                /\ UNCHANGED <<loc, sent>>
           ELSE /\ tokres' = [tokres EXCEPT ![op] = step]
                /\ loc' = [loc EXCEPT ![op].token = step.body.access_token]
                /\ sent' = [sent EXCEPT ![op] =
                               Append(@, ResourceRequest(ResourceKind(variant, op),
                                             step.body.access_token,
                                             IF ResourceKind(variant, op) = "file"
                                             THEN loc[op].fileId ELSE UNDEF))]
                /\ pc' = [pc EXCEPT ![op] = ResourceKind(variant, op)]
                /\ UNCHANGED <<err, button, container>>
    /\ UNCHANGED <<variant, query, timers, runs, res, lookup, copyVars, sizeVars, pageVars>>

\* The awaited GET /files/{id} of fetchFileMetadata (single-fetch and
\* authorization-code variants) settles to o.
FileSettle(o) ==
    /\ pc["fetch"] = "file"
    /\ res' = [res EXCEPT !["fetch"] = o]
    /\ LET r == IF variant = "authcode" THEN fetchInline(o) ELSE getFileMetadata(o)
       IN  IF r.kind = "throw"
           THEN Caught("fetch", r.msg)
           ELSE /\ container' = (IF variant = "authcode"
                                 THEN displayFileMetadataStrict(r.body)
                                 ELSE displayFileMetadata(r.body))
                /\ button' = [button EXCEPT !["fetch"] = finallyButton(variant, "fetch", FALSE)]
                /\ pc' = [pc EXCEPT !["fetch"] = "idle"]
                /\ UNCHANGED err
    /\ UNCHANGED <<variant, query, loc, timers, runs, att, tokres, sent, lookup, copyVars, sizeVars, pageVars>>

\* A faulty variant: a list envelope with a next_marker is followed by a
\* request for the next page.
ListSettleNextPage(o) ==
    /\ pc["fetch"] = "list"
    /\ res' = [res EXCEPT !["fetch"] = o]
    /\ LET r == listAllFiles(o)
       IN  IF r.kind = "throw"
           THEN Caught("fetch", r.msg) /\ UNCHANGED timers
           ELSE /\ container' = displayFilesList(r.body.entries, r.body.list, loc["fetch"].token)
                /\ timers' = (IF Truthy(loc["fetch"].fileId)
                              THEN timers \cup {[run |-> runs, fileId |-> loc["fetch"].fileId,
                                                 token |-> loc["fetch"].token,
                                                 st |-> "pending"]}
                              ELSE timers)
                /\ button' = [button EXCEPT !["fetch"] = finallyButton(variant, "fetch", FALSE)]
                /\ pc' = [pc EXCEPT !["fetch"] = "idle"]
                /\ UNCHANGED err
    /\ sent' = (IF listAllFiles(o).kind = "return" /\ o.body.next_marker # UNDEF
                THEN [sent EXCEPT !["fetch"] =
                         Append(@, ResourceRequest("list", loc["fetch"].token, UNDEF))]
                ELSE sent)
    /\ UNCHANGED <<variant, query, loc, runs, att, tokres, lookup, copyVars, sizeVars, pageVars>>

\* The awaited GET /files of listAllFiles settles to o; on success the list
\* is rendered and, with a file_id, the detail callback is set for later.
ListSettle(o) ==
    /\ pc["fetch"] = "list"
    /\ res' = [res EXCEPT !["fetch"] = o]
    /\ LET r == listAllFiles(o)
       IN  IF r.kind = "throw"
           THEN Caught("fetch", r.msg) /\ UNCHANGED timers
           ELSE /\ container' = displayFilesList(r.body.entries, r.body.list, loc["fetch"].token)
                /\ timers' = (IF Truthy(loc["fetch"].fileId)
                              THEN timers \cup {[run |-> runs, fileId |-> loc["fetch"].fileId,
                                                 token |-> loc["fetch"].token,
                                                 st |-> "pending"]}
                              ELSE timers)
                /\ button' = [button EXCEPT !["fetch"] = finallyButton(variant, "fetch", FALSE)]
                /\ pc' = [pc EXCEPT !["fetch"] = "idle"]
                /\ UNCHANGED err
    /\ UNCHANGED <<variant, query, loc, runs, att, tokres, sent, lookup, copyVars, sizeVars, pageVars>>

\* The awaited GET /users/me of verifyTokenPermissions settles to o.
UserSettle(o) ==
    /\ pc["verify"] = "user"
    /\ res' = [res EXCEPT !["verify"] = o]
    /\ LET r == fetchInline(o)
       IN  IF r.kind = "throw"
           THEN Caught("verify", r.msg)
           ELSE /\ container' = displayUserInfo(r.body)
                /\ button' = [button EXCEPT !["verify"] = finallyButton(variant, "verify", FALSE)]
                /\ pc' = [pc EXCEPT !["verify"] = "idle"]
                /\ UNCHANGED err
    /\ UNCHANGED <<variant, query, loc, timers, runs, att, tokres, sent, lookup, copyVars, sizeVars, pageVars>>

\* The setTimeout callback of the list variant runs: it sends its request.
TimerFire(t) ==
    /\ t \in timers
    /\ t.st = "pending"
    /\ timers' = (timers \ {t}) \cup {[t EXCEPT !.st = "file"]}
    /\ UNCHANGED <<variant, query, button, container, pc, loc, runs, att, tokres,
                   err, res, sent, lookup, copyVars, sizeVars, pageVars>>

\* A faulty variant: the callback shows its error in the container.
TimerSettleShowsError(t, o) ==
    /\ t \in timers
    /\ t.st = "file"
    /\ timers' = timers \ {t}
    /\ LET r == getFileMetadata(o)
       IN  IF r.kind = "throw"
           THEN container' = showMetadataError(r.msg)
           ELSE container' = displayFileMetadata(r.body)
    /\ UNCHANGED <<variant, query, button, pc, loc, runs, att, tokres, err, res,
                   sent, lookup, copyVars, sizeVars, pageVars>>

\* The callback's GET /files/{id} settles: a detail replaces the container's
\* content; an error is logged and nothing is written.
TimerSettle(t, o) ==
    /\ t \in timers
    /\ t.st = "file"
    /\ timers' = timers \ {t}
    /\ LET r == getFileMetadata(o)
       IN  IF r.kind = "throw"
           THEN UNCHANGED container
           ELSE container' = displayFileMetadata(r.body)
    /\ UNCHANGED <<variant, query, button, pc, loc, runs, att, tokres, err, res,
                   sent, lookup, copyVars, sizeVars, pageVars>>

\* A click on the Get Metadata button h of a rendered list:
\* getFileMetadataForDisplay(fileId, accessToken) up to its await.
DisplayClick(h) ==
    /\ pc["display"] = "idle"
    /\ runs < MaxRuns
    /\ h \in DOMAIN container.handlers
    /\ runs' = runs + 1
    /\ container' = DisplayLoadingContent(container.handlers[h].fileId)
    /\ loc' = [loc EXCEPT !["display"] =
                  [i |-> 0, token |-> container.handlers[h].token,
                   fileId |-> container.handlers[h].fileId, run |-> runs + 1]]
    /\ sent' = [sent EXCEPT !["display"] =
                  <<ResourceRequest("file", container.handlers[h].token,
                                    container.handlers[h].fileId)>>]
    /\ pc' = [pc EXCEPT !["display"] = "file"]
    /\ res' = [res EXCEPT !["display"] = NoRes]
    /\ err' = [err EXCEPT !["display"] = NoErr]
    /\ UNCHANGED <<variant, query, button, timers, att, tokres, lookup, copyVars, sizeVars, pageVars>>

\* The awaited GET /files/{id} of getFileMetadataForDisplay settles to o.
DisplaySettle(o) ==
    /\ pc["display"] = "file"
    /\ res' = [res EXCEPT !["display"] = o]
    /\ pc' = [pc EXCEPT !["display"] = "idle"]
    /\ LET r == getFileMetadata(o)
       IN  IF r.kind = "throw"
           THEN /\ container' = displayCatchContent(loc["display"].fileId, r.msg)
                /\ err' = [err EXCEPT !["display"] = [caught |-> TRUE, msg |-> r.msg]]
           ELSE /\ container' = displayFileMetadata(r.body)
                /\ UNCHANGED err
    /\ UNCHANGED <<variant, query, button, loc, timers, runs, att, tokres, sent, lookup, copyVars, sizeVars, pageVars>>

Next ==
    \/ FetchClick
    \/ VerifyClick
    \/ \E op \in {"fetch", "verify"}, o \in TokenOutcomes : TokenSettle(op, o)
    \/ \E o \in FileOutcomes : FileSettle(o)
    \/ \E o \in ListOutcomes : ListSettle(o)
    \/ \E o \in UserOutcomes : UserSettle(o)
    \/ \E t \in timers : TimerFire(t)
    \/ \E t \in timers, o \in FileOutcomes : TimerSettle(t, o)
    \/ \E h \in 1..2 : DisplayClick(h)
    \/ \E o \in FileOutcomes : DisplaySettle(o)

Spec == Init /\ [][Next]_vars

\* Every awaited network call eventually settles; clicks are never forced.
FairSpec ==
    /\ Spec
    /\ \A op \in {"fetch", "verify"} : WF_vars(\E o \in TokenOutcomes : TokenSettle(op, o))
    /\ WF_vars(\E o \in FileOutcomes : FileSettle(o))
    /\ WF_vars(\E o \in ListOutcomes : ListSettle(o))
    /\ WF_vars(\E o \in UserOutcomes : UserSettle(o))

\* ------------------------------------------- the parameter reader on its own

ParamKeys == {<<"a">>, <<"b">>}
ParamValues == {<<>>, <<"1">>, <<"2">>}

\* Query strings of up to MaxQueryLen entries, keys repeated or not.
RECURSIVE Queries(_)
Queries(n) ==
    IF n = 0 THEN {<<>>}
    ELSE LET shorter == Queries(n - 1)
         IN  shorter \cup { Append(q, <<k, v>>) :
                               q \in {s \in shorter : Len(s) = n - 1},
                               k \in ParamKeys, v \in ParamValues }

InitParams ==
    /\ variant = "single"
    /\ query \in Queries(MaxQueryLen)
    /\ InitPage
    /\ sizeIn = <<NoSize, NoSize>>

\* boxApp.getParameter(k), boxApp.hasParameter(k) and boxApp.getParametersObject()
\* are called on the page's query string.
ReadParameter(k) ==
    /\ lookup' = [key |-> k, get |-> getParameter(query, k),
                  has |-> hasParameter(query, k), obj |-> getParametersObject(query)]
    /\ UNCHANGED <<variant, query, button, container, pc, loc, timers, runs, att,
                   tokres, err, res, sent, copyVars, sizeVars, pageVars>>

NextParams == \E k \in ParamKeys : ReadParameter(k)

SpecParams == InitParams /\ [][NextParams]_vars

\* ------------------------------------------------------- the copy handlers

\* elementId.startsWith('file-id-')
StartsWith(s, prefix) ==
    Len(s) >= Len(prefix) /\ SubSeq(s, 1, Len(prefix)) = prefix

\* The text copyToClipboard passes to navigator.clipboard.writeText.
textToCopy(v, q, elementId) ==
    IF elementId = CurrentUrl THEN LocationHref(q)
    ELSE IF v \in {"authcode", "list"} /\ StartsWith(elementId, FileIdPrefix)
    THEN SubSeq(elementId, Len(FileIdPrefix) + 1, Len(elementId))
    ELSE Or(getParameter(q, elementId), <<>>)

\* showCopyFeedback: what the button shows at once ...
showCopyFeedback(b) == [label |-> "Copied!", background |-> "#28a745"]

\* ... the callback it sets, holding the button's text and background of
\* that moment ...
feedbackTimer(id, b) == [id |-> id, originalText |-> b.label,
                         originalBackground |-> b.background]

\* ... and what the callback writes a second later.
restoreButton(t) ==
    [label |-> t.originalText,
     background |-> IF t.originalBackground # "" THEN t.originalBackground ELSE "#667eea"]

\* The query strings of the copy specification: key a absent, empty, set, or
\* set twice; key b always absent.
CopyQueries ==
    { <<>>, << <<<<"a">>, <<>>>> >>, << <<<<"a">>, <<"1">>>> >>,
      << <<<<"a">>, <<"1">>>>, <<<<"a">>, <<"2">>>> >> }

InitCopy ==
    /\ variant \in Variants
    /\ query \in CopyQueries
    /\ InitPage
    /\ sizeIn = <<NoSize, NoSize>>

\* The writeText call both copy functions end in; the promise is pending.
WriteText(id, text) ==
    /\ Len(copies) < MaxCopies
    /\ copies' = Append(copies, [id |-> id, text |-> text, end |-> "pending"])
    /\ UNCHANGED <<variant, query, button, container, pc, loc, timers, runs, att,
                   tokres, err, res, sent, lookup, sizeVars, pageVars, copyButton, clipboard, feedback>>

\* A click on a Copy button: copyToClipboard(elementId).
CopyClick(elementId) ==
    /\ elementId \in CopyIds(variant)
    /\ WriteText(elementId, textToCopy(variant, query, elementId))

\* A click on the Copy button of a metadata row: copyMetadataValue(value).
CopyMetadataClick(value) ==
    /\ variant \in {"single", "list"}
    /\ WriteText(MetadataRow, value)

\* The write of copy n resolves.  The then callback reads event.target: the
\* global event is the click while the click is being dispatched and undefined
\* afterwards, so the callback either gives the feedback on the clicked button
\* (current) or throws into the catch callback, which alerts.
WriteResolve(n, current) ==
    /\ n \in DOMAIN copies
    /\ copies[n].end = "pending"
    /\ clipboard' = copies[n].text
    /\ IF current
       THEN /\ copyButton' = [copyButton EXCEPT ![copies[n].id] = showCopyFeedback(@)]
            /\ feedback' = Append(feedback, feedbackTimer(copies[n].id, copyButton[copies[n].id]))
            /\ copies' = [copies EXCEPT ![n].end = "confirmed"]
       ELSE /\ copies' = [copies EXCEPT ![n].end = "resolved-alert"]
            /\ UNCHANGED <<copyButton, feedback>>
    /\ UNCHANGED <<variant, query, button, container, pc, loc, timers, runs, att,
                   tokres, err, res, sent, lookup, sizeVars, pageVars>>

\* The write of copy n rejects: showError('Failed to copy to clipboard').
WriteReject(n) ==
    /\ n \in DOMAIN copies
    /\ copies[n].end = "pending"
    /\ copies' = [copies EXCEPT ![n].end = "rejected-alert"]
    /\ UNCHANGED <<variant, query, button, container, pc, loc, timers, runs, att,
                   tokres, err, res, sent, lookup, sizeVars, pageVars, copyButton, clipboard, feedback>>

\* The oldest feedback callback runs (all have the same delay).
FeedbackFire ==
    /\ feedback # <<>>
    /\ copyButton' = [copyButton EXCEPT ![Head(feedback).id] = restoreButton(Head(feedback))]
    /\ feedback' = Tail(feedback)
    /\ UNCHANGED <<variant, query, button, container, pc, loc, timers, runs, att,
                   tokres, err, res, sent, lookup, sizeVars, pageVars, clipboard, copies>>

NextCopy ==
    \/ \E id \in AllCopyIds : CopyClick(id)
    \/ \E value \in {F1.id, <<>>} : CopyMetadataClick(value)
    \/ \E n \in 1..MaxCopies, current \in BOOLEAN : WriteResolve(n, current)
    \/ \E n \in 1..MaxCopies : WriteReject(n)
    \/ FeedbackFire

\* Every pending write settles and every set callback runs.
SpecCopy ==
    /\ InitCopy
    /\ [][NextCopy]_vars
    /\ WF_vars(\E n \in 1..MaxCopies, current \in BOOLEAN : WriteResolve(n, current))
    /\ WF_vars(FeedbackFire)

\* ------------------------------------------------------ the size formatter

\* Byte counts around every boundary of the unit table, and some between.
SizeSamples ==
    { <<0>>, <<1>>, <<512>>, <<1023>>,
      <<1, 0>>, <<1, 1>>, <<1, 512>>, <<2, 0>>, <<1023, 1023>>,
      <<1, 0, 0>>, <<1, 512, 0>>, <<1023, 1023, 1023>>,
      <<1, 0, 0, 0>>, <<1023, 1023, 1023, 1023>>,
      <<1, 0, 0, 0, 0>>, <<1023, 1023, 1023, 1023, 1020>>,
      <<1023, 1023, 1023, 1023, 1023>>,
      <<1, 0, 0, 0, 0, 0>>, <<1, 0, 0, 0, 0, 1>>, <<1, 0, 0, 0, 0, 0, 0>> }

InitSize ==
    /\ variant = "single"
    /\ query = <<>>
    /\ InitPage
    /\ sizeIn \in SizeSamples \X SizeSamples

\* formatFileSize is called on the first, then on the second byte count.
FormatSize(j) ==
    /\ sizeOut[j] = NoFormat
    /\ \A l \in 1..(j - 1) : sizeOut[l] # NoFormat
    /\ sizeOut' = [sizeOut EXCEPT ![j] = formatFileSize(sizeIn[j])]
    /\ UNCHANGED <<variant, query, button, container, pc, loc, timers, runs, att,
                   tokres, err, res, sent, lookup, copyVars, sizeIn, pageVars>>

NextSize == \E j \in 1..2 : FormatSize(j)

SpecSize == InitSize /\ [][NextSize]_vars

\* ------------------------------------------------- the field-list renderer

\* Records a file endpoint can answer with: each listed key absent (or null),
\* empty or set, with or without a key that is not in the list.
MetadataRecords ==
    { [NoFileBody EXCEPT !.id = i, !.name = n, !.size = z, !.message = m] :
        i \in {UNDEF, <<>>, <<"4", "2">>, <<"<", "7">>},
        n \in {UNDEF, <<"report.pdf">>, <<"<", "b", ">", "&">>},
        z \in {NoSize, <<0>>, <<2, 0>>},
        m \in {UNDEF, <<"m", "1">>} }

InitRender ==
    /\ variant = "single"
    /\ query = <<>>
    /\ button = [b \in Buttons |-> [disabled |-> FALSE, label |-> IdleLabel(variant, b)]]
    /\ container = InitialContent
    /\ pc = [p \in Ops |-> "idle"]
    /\ loc = [p \in Ops |-> NoLoc]
    /\ timers = {}
    /\ runs = 0
    /\ att = [p \in Ops |-> <<>>]
    /\ tokres = [p \in Ops |-> NoResult]
    /\ err = [p \in Ops |-> NoErr]
    /\ \E r \in MetadataRecords : res = [p \in Ops |-> IF p = "fetch" THEN Resp(200, r) ELSE NoRes]
    /\ sent = [p \in Ops |-> <<>>]
    /\ lookup = NoLookup
    /\ copyButton = [b \in AllCopyIds |-> IdleCopyButton]
    /\ clipboard = UNDEF
    /\ feedback = <<>>
    /\ copies = <<>>
    /\ sizeIn = <<NoSize, NoSize>>
    /\ sizeOut = <<NoFormat, NoFormat>>
    /\ PageLoaded

\* displayFileMetadata(metadata) is called on the record.
RenderMetadata ==
    /\ container = InitialContent
    /\ container' = displayFileMetadata(res["fetch"].body)
    /\ UNCHANGED <<variant, query, button, pc, loc, timers, runs, att, tokres, err,
                   res, sent, lookup, copyVars, sizeVars, pageVars>>

NextRender == RenderMetadata

SpecRender == InitRender /\ [][NextRender]_vars

\* --------------------------------------------- the parameter display on its own

MaxPieces == 2
MaxMoves == 1

\* What may stand between two "&" of the address: nothing, a name with a
\* value (one of them with markup in it), and the two names copyToClipboard
\* treats specially.
SearchPieces ==
    { <<>>, <<"a", "=", "1">>, <<"a", "=", "<">>,
      <<"current-url", "=", "1">>, <<"file-id-", "4", "2", "=", "1">> }

RECURSIVE Searches(_)
\* Query strings of exactly n pieces joined by "&".
Searches(n) ==
    IF n = 1 THEN SearchPieces
    ELSE { s \o <<"&">> \o p : s \in Searches(n - 1), p \in SearchPieces }

\* Query strings of one to MaxPieces pieces.
SearchSamples == UNION { Searches(n) : n \in 1..MaxPieces }

\* The script runs, and with it the constructor's displayParameters(), while
\* the document is loading: the elements are there already or not yet.
InitDisplay ==
    /\ variant \in Variants
    /\ search \in SearchSamples
    /\ query = URLSearchParams(search)
    /\ \E e \in BOOLEAN :
          /\ document = [ready |-> FALSE, elements |-> e, moves |-> 0]
          /\ LET shown == displayParameters(document, query,
                              [parameters |-> InitialParameters,
                               currentUrl |-> InitialUrlText])
             IN  parameters = shown.parameters /\ currentUrl = shown.currentUrl
    /\ copied = NoCopied
    /\ InitHandlers
    /\ sizeIn = <<NoSize, NoSize>>

\* The listeners of setupEventListeners call displayParameters(); rows that
\* are written anew have not been clicked.
Redisplay(doc, q) ==
    LET shown == displayParameters(doc, q,
                     [parameters |-> parameters, currentUrl |-> currentUrl])
    IN  /\ parameters' = shown.parameters
        /\ currentUrl' = shown.currentUrl
        /\ copied' = IF doc.elements THEN NoCopied ELSE copied

\* DOMContentLoaded: the document is complete, with the elements (e) or
\* without some of them.
DOMContentLoaded(e) ==
    /\ ~document.ready
    /\ document.elements => e
    /\ document' = [document EXCEPT !.ready = TRUE, !.elements = e]
    /\ Redisplay(document', query)
    /\ UNCHANGED <<variant, query, search, button, container, pc, loc, timers,
                   runs, att, tokres, err, res, sent, lookup, copyVars, sizeVars>>

\* popstate: the history has moved to an entry whose query string is s.
PopState(s) ==
    /\ document.ready
    /\ document.moves < MaxMoves
    /\ document' = [document EXCEPT !.moves = @ + 1]
    /\ search' = s
    /\ query' = URLSearchParams(s)
    /\ Redisplay(document, query')
    /\ UNCHANGED <<variant, button, container, pc, loc, timers,
                   runs, att, tokres, err, res, sent, lookup, copyVars, sizeVars>>

\* A click on the Copy button of row j: copyToClipboard with the argument
\* written into the row's onclick.
RowCopyClick(j) ==
    /\ j \in DOMAIN parameters.handlers
    /\ copied' = [row |-> j, shown |-> parameters.rows[j].value,
                  text |-> textToCopy(variant, query, parameters.handlers[j])]
    /\ UNCHANGED <<variant, query, search, document, parameters, currentUrl, button,
                   container, pc, loc, timers, runs, att, tokres, err, res, sent,
                   lookup, copyVars, sizeVars>>

NextDisplay ==
    \/ \E e \in BOOLEAN : DOMContentLoaded(e)
    \/ \E s \in SearchSamples : PopState(s)
    \/ \E j \in 1..MaxPieces : RowCopyClick(j)

SpecDisplay == InitDisplay /\ [][NextDisplay]_vars

\* ---------------------------------------------------------------- properties

\* The variants whose getAccessToken tries two methods.
TwoMethod == variant \in {"single", "list"}

\* What the upstream answered, as the specification speaks of it.
SuccessStatus(o) == o.kind = "resp" /\ o.status \in 200..299
NonSuccessStatus(o) == o.kind = "resp" /\ o.status \notin 200..299
\* A success response whose body was parsed.
Succeeded(o) == SuccessStatus(o) /\ o.json

\* The token requests and the resource requests of this run of op, in order.
TokenRequests(op) == SelectSeq(sent[op], LAMBDA r : r.kind = "token")
ResourceRequests(op) == SelectSeq(sent[op], LAMBDA r : r.kind # "token")

\* This run's getAccessToken has returned or thrown.
CallEnded(op) == tokres[op].kind \in {"return", "throw"}

\* C1: in the two-method getAccessToken, after a first attempt that yields a
\* non-success response the second request is sent and nothing is raised to
\* the caller; and when the second attempt then yields a success response
\* (its body parsed), the call returns exactly that body.
C1_FallbackReturnsSecond ==
    TwoMethod =>
        \A op \in {"fetch"} :
            (Len(att[op]) >= 1 /\ NonSuccessStatus(att[op][1])) =>
                /\ TokenRequests(op) = <<TokenRequest("plain"), TokenRequest("enterprise")>>
                /\ (Len(att[op]) = 1 => ~CallEnded(op) /\ ~err[op].caught)
                /\ (CallEnded(op) => Len(att[op]) = 2)
                /\ (Len(att[op]) = 2 /\ Succeeded(att[op][2]) =>
                        /\ tokres[op] = Return(att[op][2].body)
                        /\ tokres[op].body.access_token = att[op][2].body.access_token)

\* C1 witness: a first attempt answered 400 with an error body, a second
\* answered with a token, and the call has returned that token.
C1_Witness ==
    /\ variant = "single"
    /\ Len(att["fetch"]) = 2
    /\ att["fetch"][1] = Resp(400, TokenBody(UNDEF, <<"d", "1">>, <<"e", "1">>))
    /\ Succeeded(att["fetch"][2])
    /\ tokres["fetch"].kind = "return"
    /\ tokres["fetch"].body.access_token = <<"t2">>

\* The message the specification expects of a failed last attempt: the status, then
\* error_description, else error.
ExpectedTokenFailure(o) ==
    <<"Token request failed: ">> \o Digits(o.status) \o <<" - ">>
        \o ToStr(IF Truthy(o.body.error_description) THEN o.body.error_description
                 ELSE o.body.error)

\* C2 as amended: in the two-method getAccessToken, when every attempt has
\* failed and the last attempt's response (a non-success status) has a body
\* that parses, the error raised to the caller is exactly the status and the
\* error description (error_description, else error) of that last response,
\* whatever the first attempt answered; when the last attempt throws instead
\* (the request rejects, the body does not parse) that exception is raised.
C2_LastFailureSurfaced ==
    TwoMethod =>
        \A op \in {"fetch"} :
            (CallEnded(op) /\ Len(att[op]) = 2 /\ ~Succeeded(att[op][2])) =>
                /\ tokres[op].kind = "throw"
                /\ err[op] = [caught |-> TRUE, msg |-> tokres[op].msg]
                /\ (NonSuccessStatus(att[op][2]) /\ att[op][2].json =>
                        tokres[op].msg = ExpectedTokenFailure(att[op][2]))
                /\ (att[op][2].kind = "reject" => tokres[op].msg = ExcNetwork)
                /\ (att[op][2].kind = "resp" /\ ~att[op][2].json =>
                        tokres[op].msg = ExcJson)

\* C2 witness: both attempts answered with different error bodies and the
\* error raised is the second's.
C2_Witness ==
    /\ variant = "list"
    /\ Len(att["fetch"]) = 2
    /\ att["fetch"][1] = Resp(400, TokenBody(UNDEF, <<"d", "1">>, <<"e", "1">>))
    /\ att["fetch"][2] = Resp(401, TokenBody(UNDEF, UNDEF, <<"e", "2">>))
    /\ tokres["fetch"].kind = "throw"
    /\ err["fetch"].caught

\* C2 as stated: whenever every attempt has failed, the error raised carries
\* the status and the error description of the last attempt's response.
C2_Original ==
    TwoMethod =>
        \A op \in {"fetch"} :
            (CallEnded(op) /\ Len(att[op]) = 2 /\ ~Succeeded(att[op][2])
               /\ NonSuccessStatus(att[op][2])) =>
                /\ tokres[op].kind = "throw"
                /\ Includes(tokres[op].msg, Digits(att[op][2].status))
                /\ tokres[op].msg = ExpectedTokenFailure(att[op][2])

\* C3 as amended: in every call of the two-method getAccessToken the token
\* requests are sent in order (plain, then enterprise-subject), at most two,
\* the second only after the first attempt has completed without success;
\* when the first response has a success status and its body parses, no
\* second request is sent and that body is the result.
C3_AttemptsInOrder ==
    TwoMethod =>
        \A op \in {"fetch"} :
            /\ TokenRequests(op) \in
                   {<<>>, <<TokenRequest("plain")>>,
                    <<TokenRequest("plain"), TokenRequest("enterprise")>>}
            /\ Len(TokenRequests(op)) <= Len(att[op]) + 1
            /\ (Len(TokenRequests(op)) = 2 =>
                    Len(att[op]) >= 1 /\ ~Succeeded(att[op][1]))
            /\ (Len(att[op]) >= 1 /\ Succeeded(att[op][1]) =>
                    /\ Len(TokenRequests(op)) = 1
                    /\ Len(att[op]) = 1
                    /\ tokres[op] = Return(att[op][1].body))

\* C3 witness: the first attempt succeeded with status 201, one token request
\* was sent and its body is the result.
C3_Witness ==
    /\ variant = "single"
    /\ att["fetch"] = <<Resp(201, TokenBody(<<"t2">>, UNDEF, UNDEF))>>
    /\ Len(TokenRequests("fetch")) = 1
    /\ tokres["fetch"].kind = "return"

\* C3 as stated: when the first response has a success status, no second
\* request is sent and the first response's body is the result.
C3_Original ==
    TwoMethod =>
        \A op \in {"fetch"} :
            (Len(att[op]) >= 1 /\ SuccessStatus(att[op][1])) =>
                /\ Len(TokenRequests(op)) = 1
                /\ tokres[op].kind = "return"

\* client_id or client_secret is absent or empty in the query string.
MissingCredentials ==
    \/ ~Truthy(getParameter(query, K_client_id))
    \/ ~Truthy(getParameter(query, K_client_secret))

\* op is invoked in this step (Verify exists in the authorization-code variant).
Invoked(op) == Start(op) /\ (op = "verify" => variant = "authcode")

\* C4 as amended: when client_id or client_secret is absent or empty, an
\* invocation of fetchFileMetadata or verifyTokenPermissions writes an inline
\* error into the container, sends no request and leaves the button as it
\* was; the error names client_id and client_secret, except that the
\* single-fetch fetchFileMetadata names file_id instead when file_id is absent
\* or empty as well.
C4_MissingCredentials ==
    [][\A op \in Buttons :
          (Invoked(op) /\ MissingCredentials) =>
              /\ container'.render = "error"
              /\ (IF variant = "single" /\ ~Truthy(getParameter(query, K_file_id))
                  THEN /\ Includes(container'.html, K_file_id)
                       /\ ~Includes(container'.html, K_client_id)
                  ELSE /\ Includes(container'.html, K_client_id)
                       /\ Includes(container'.html, K_client_secret))
              /\ sent'[op] = <<>>
              /\ \A q \in Ops \ {op} : sent'[q] = sent[q]
              /\ timers' = timers
              /\ pc' = pc
              /\ button' = button]_vars

\* C4 witness: Fetch was invoked without credentials: the error naming them
\* is shown, nothing was sent, the button is enabled with its idle label.
C4_Witness ==
    /\ variant = "list"
    /\ MissingCredentials
    /\ runs = 1
    /\ container = showMetadataError(ClientRequired)
    /\ \A op \in Ops : sent[op] = <<>>
    /\ button["fetch"] = [disabled |-> FALSE, label |-> IdleLabel(variant, "fetch")]

\* C4 as stated: the inline error names the missing client_id / client_secret
\* in every variant.
C4_Original ==
    [][\A op \in Buttons :
          (Invoked(op) /\ MissingCredentials) =>
              /\ container'.render = "error"
              /\ Includes(container'.html, K_client_id)
              /\ Includes(container'.html, K_client_secret)
              /\ sent'[op] = <<>>
              /\ button' = button]_vars

\* The button is in its Loading state / back in its idle state.
Loading(b) == button[b] = [disabled |-> TRUE, label |-> LoadingLabel(b)]
Restored(b) == button[b] = [disabled |-> FALSE, label |-> IdleLabel(variant, b)]

\* C5: once fetchFileMetadata or verifyTokenPermissions has put its button
\* into the Loading state, and every awaited call settles, the button is
\* eventually enabled again with its idle label, whatever the outcome.
C5_ButtonRestored == \A b \in Buttons : Loading(b) ~> Restored(b)

\* C5 witness: an operation that was Loading has ended in its catch block
\* and the button is restored.
C5_Witness ==
    \E b \in Buttons :
        /\ Restored(b)
        /\ pc[b] = "idle"
        /\ Len(sent[b]) >= 1
        /\ err[b].caught

\* C6: no character "<" taken from a query parameter or an upstream response
\* stands unescaped in the container's HTML (every such string has gone
\* through escapeHtml before insertion).
C6_NoUnescapedMarkup == ~Includes(container.html, <<"<">>)

\* A token t is held by the page outside the operation that obtained it.
HeldInContainer(t) ==
    \/ Includes(container.html, t)
    \/ \E h \in DOMAIN container.handlers : container.handlers[h].token = t
HeldByCallback(t) == \E c \in timers : c.token = t

\* Every resource request of this run of op bears the token this run got.
BearsOwnToken(op) ==
    \A i \in DOMAIN sent[op] :
        sent[op][i].kind # "token" =>
            /\ tokres[op].kind = "return"
            /\ Truthy(tokres[op].body.access_token)
            /\ sent[op][i].bearer = tokres[op].body.access_token

\* C7 as amended: in the single-fetch and authorization-code variants an
\* access token is held only by the operation that obtained it: no container
\* content and no pending callback ever holds a token, and every resource
\* request bears the token its own run obtained.  (In the list variant the
\* token outlives the operation: the rendered list's Get Metadata handlers
\* and the delayed detail callback hold it and send requests with it.)
C7_TokenNotKept ==
    variant \in {"single", "authcode"} =>
        /\ \A t \in Tokens : ~HeldInContainer(t) /\ ~HeldByCallback(t)
        /\ \A op \in Ops : BearsOwnToken(op)

\* C7 witness: a single-fetch operation obtained a token, fetched the file
\* with it and has finished; the detail is shown.
C7_Witness ==
    /\ variant = "single"
    /\ pc["fetch"] = "idle"
    /\ Restored("fetch")
    /\ tokres["fetch"].kind = "return"
    /\ tokres["fetch"].body.access_token = <<"tok">>
    /\ Len(ResourceRequests("fetch")) = 1
    /\ container.render = "detail"

\* An operation's own run is over.
Finished(op) == pc[op] = "idle" /\ (op \in Buttons => ~button[op].disabled)

\* C7 as stated: once the operation that obtained a token has finished, no
\* container content and no pending callback holds that token, and no other
\* operation has a request out with it.
C7_Original ==
    \A op \in Buttons :
        (Finished(op) /\ tokres[op].kind = "return"
           /\ Truthy(tokres[op].body.access_token)) =>
            /\ ~HeldInContainer(tokres[op].body.access_token)
            /\ ~HeldByCallback(tokres[op].body.access_token)
            /\ (pc["display"] = "file" =>
                    loc["display"].token # tokres[op].body.access_token)

\* The text the specification expects after the status: message, else error, else a
\* fixed fallback literal.
ExpectedUpstreamText(b) ==
    IF Truthy(b.message) THEN b.message
    ELSE IF Truthy(b.error) THEN b.error
    ELSE <<"Unknown error">>

\* s ends with suffix.
EndsWith(s, suffix) ==
    /\ Len(s) >= Len(suffix)
    /\ SubSeq(s, Len(s) - Len(suffix) + 1, Len(s)) = suffix

\* The operations that GET a single file resource themselves.
FileGetters ==
    IF variant = "list" THEN {"display"} ELSE {"fetch"}

\* C9: in every variant, when the GET of a single file resource returns a
\* non-success status (its body parsed), the error raised carries the status
\* followed by the body's message, else its error, else a fallback literal.
C9_FileErrorMessage ==
    \A op \in FileGetters :
        (NonSuccessStatus(res[op]) /\ res[op].json) =>
            /\ err[op].caught
            /\ EndsWith(err[op].msg,
                        Digits(res[op].status) \o <<" - ">>
                            \o ExpectedUpstreamText(res[op].body))

\* The last token attempt of this run of op.
LastAttempt(op) == att[op][Len(att[op])]

\* The token endpoint answered this run of op with a success status and a
\* parsed body that has no access_token.
TokenMissing(op) ==
    /\ CallEnded(op)
    /\ Len(att[op]) >= 1
    /\ Succeeded(LastAttempt(op))
    /\ ~Truthy(LastAttempt(op).body.access_token)

\* C10: when the token endpoint answers with a success status and a body
\* without access_token, the operation sends no resource request and ends in
\* its catch block with the error 'Failed to get access token: ' followed by
\* the body's error_description, else 'Unknown error'; with one operation on
\* the container (single-fetch variant) that error is what the container
\* shows.
C10_NoTokenInResponse ==
    \A op \in Buttons :
        TokenMissing(op) =>
            LET d == LastAttempt(op).body.error_description
                expected == <<"Failed to get access token: ">>
                               \o (IF Truthy(d) THEN d ELSE <<"Unknown error">>)
            IN  /\ ResourceRequests(op) = <<>>
                /\ pc[op] = "idle"
                /\ err[op] = [caught |-> TRUE, msg |-> expected]
                /\ (variant = "single" =>
                        /\ container.render = "error"
                        /\ Includes(container.html, expected))

\* C10 witness: a 200 answer carrying only an error_description; the
\* operation has ended with that description in its error.
C10_Witness ==
    /\ variant = "authcode"
    /\ TokenMissing("verify")
    /\ LastAttempt("verify").body.error_description = <<"d", "0">>
    /\ err["verify"].caught
    /\ Includes(err["verify"].msg, <<"d", "0">>)
    /\ Restored("verify")

\* An entry of the query string whose key occurs last at that place.
LastOccurrence(q, k) ==
    LET i == CHOOSE j \in 1..Len(q) :
                 q[j][1] = k /\ \A l \in (j + 1)..Len(q) : q[l][1] # k
    IN  q[i][2]

\* C8: for every key that occurs in the query string (once or more),
\* getParameter(k) equals getParametersObject()[k], and both are the value
\* of the last occurrence of k.
C8_LookupAgrees ==
    (lookup.key # UNDEF /\ lookup.has) =>
        /\ lookup.get = lookup.obj[lookup.key]
        /\ lookup.get = LastOccurrence(query, lookup.key)

\* The upstream response this run of op failed on: the last token attempt
\* when getAccessToken threw, else the resource response.
FailedOn(op) == IF tokres[op].kind = "throw" THEN LastAttempt(op) ELSE res[op]

\* This run of op ended in its catch block because an upstream response had
\* a non-success status (its body parsed).
UpstreamFailure(op) ==
    /\ err[op].caught
    /\ \/ tokres[op].kind = "throw" /\ Len(att[op]) >= 1
       \/ tokres[op].kind = "return" /\ res[op].kind = "resp"
    /\ NonSuccessStatus(FailedOn(op))
    /\ FailedOn(op).json

\* The message the specification expects for a failure on response o whose
\* error was raised with the message original.
RewrittenByStatus(v, o, original) ==
    IF Includes(ToStr(o.body.error), PSubject) THEN ConfigurationGuidance(v)
    ELSE IF o.status = 401 THEN CredentialGuidance
    ELSE IF o.status = 403 THEN PermissionGuidance(v, "fetch")
    ELSE IF o.status = 404 THEN NotFoundGuidance(v)
    ELSE original

\* C11: when fetchFileMetadata has failed on an upstream response and the
\* container shows that failure, the message shown is the guidance chosen by
\* the response's status (401, 403, 404) or by a box_subject_id error token,
\* and the original message when none of these applies.
C11_RewrittenByStatus ==
    (/\ UpstreamFailure("fetch")
     /\ container = catchContent(variant, "fetch", err["fetch"].msg)) =>
        container = showMetadataError(
                        ErrorPrefix(variant, "fetch")
                            \o RewrittenByStatus(variant, FailedOn("fetch"), err["fetch"].msg))

\* C12: whenever a Copy button shows the 'Copied!' confirmation, however many
\* copies were made on it and however they overlapped, its label later
\* reverts to the label it had before the first copy.
C12_LabelReverts ==
    \A id \in AllCopyIds :
        (copyButton[id].label = "Copied!") ~> (copyButton[id].label = IdleCopyButton.label)

\* Copy n has ended with the failure notification.
Alerted(n) == copies[n].end \in {"resolved-alert", "rejected-alert"}

\* C13: a copy whose key resolves to no value, or whose clipboard write is
\* rejected, ends with the failure notification and never with the 'Copied!'
\* confirmation; a confirmed copy wrote a non-empty value.
C13_NoValueNotConfirmed ==
    \A n \in DOMAIN copies :
        /\ (copies[n].end = "confirmed" => copies[n].text # <<>>)
        /\ ((copies[n].text = <<>> /\ copies[n].end # "pending") => Alerted(n))

\* What the run of op that has just ended writes last: the error of its catch
\* block, or the rendering of the resource it received.
FinalWrite(op) ==
    IF err[op].caught
    THEN (IF op = "display"
          THEN displayCatchContent(loc[op].fileId, err[op].msg)
          ELSE catchContent(variant, op, err[op].msg))
    ELSE IF op = "verify" THEN displayUserInfo(res[op].body)
    ELSE IF op = "display" THEN displayFileMetadata(res[op].body)
    ELSE IF variant = "authcode" THEN displayFileMetadataStrict(res[op].body)
    ELSE IF variant = "list"
    THEN displayFilesList(res[op].body.entries, res[op].body.list, loc[op].token)
    ELSE displayFileMetadata(res[op].body)

\* Two operations are in flight on the one container.
Overlap == \E a, b \in Ops : a # b /\ pc[a] # "idle" /\ pc[b] # "idle"

\* C14: an operation that ends writes its output into the container whatever
\* the other operations have written or are doing, so the container holds the
\* output of the operation that wrote last; and an operation may be started
\* while another is in flight.
C14_LastWriteWins ==
    [][\A op \in Ops :
          (pc[op] # "idle" /\ pc'[op] = "idle") => container' = FinalWrite(op)']_vars

\* C14 witness: Fetch was clicked first and Verify second, both have ended, and
\* the container holds the file detail of the fetch, not the user information
\* of the verify: the operation started first wrote last.
C14_Witness ==
    /\ variant = "authcode"
    /\ loc["fetch"].run = 1 /\ loc["verify"].run = 2
    /\ pc["fetch"] = "idle" /\ pc["verify"] = "idle"
    /\ Succeeded(res["fetch"]) /\ Succeeded(res["verify"])
    /\ container = displayFileMetadataStrict(res["fetch"].body)
    /\ container.render = "detail"
    /\ container # displayUserInfo(res["verify"].body)

\* The messages of the errors the operations can catch.
ErrorTexts ==
    {ExcNetwork, ExcJson, AuthCodeRequired}
        \cup {TokenRequestFailed(o) : o \in TokenOutcomes}
        \cup {FailedToGetAccessToken(o.body).msg : o \in TokenOutcomes}
        \cup {getFileMetadata(o).msg : o \in FileOutcomes}
        \cup {fetchInline(o).msg : o \in FileOutcomes \cup UserOutcomes}
        \cup {listAllFiles(o).msg : o \in ListOutcomes}

\* The ids a rendered list can carry in its Get Metadata buttons.
ListedIds == {ToStr(f.id) : f \in {F1, F2}}

\* Every output of one single render, by the template it comes from: a
\* loading placeholder, an error, a file list, a file detail, user
\* information, or an empty-result message.
SingleRendersOf(v, template) ==
    CASE template = "loading" ->
            {LoadingContent(v, op) : op \in Buttons}
                \cup {DisplayLoadingContent(id) : id \in ListedIds}
      [] template = "error" ->
            {showMetadataError(m) : m \in {ClientRequired, FileRequired}}
                \cup {catchContent(v, op, e) : op \in Buttons, e \in ErrorTexts}
                \cup {displayCatchContent(id, e) : id \in ListedIds, e \in ErrorTexts}
      [] template = "list" ->
            {displayFilesList(o.body.entries, o.body.list, t) :
                o \in {x \in ListOutcomes : Len(x.body.entries) > 0}, t \in Tokens}
      [] template = "detail" ->
            {displayFileMetadata(o.body) : o \in FileOutcomes}
                \cup {displayFileMetadataStrict(o.body) : o \in FileOutcomes}
      [] template = "user" -> {displayUserInfo(o.body) : o \in UserOutcomes}
      [] template = "empty" ->
            {displayFileMetadata(NoFileBody), displayFileMetadataStrict(NoFileBody),
             displayFilesList(<<>>, TRUE, UNDEF)}
      [] OTHER -> {}

\* The same, tabulated once.
Templates == {"loading", "error", "list", "detail", "user", "empty"}
SingleRenders ==
    [v \in Variants |-> [template \in Templates |-> SingleRendersOf(v, template)]]

\* C15: in every state the container holds what the page loaded with or
\* exactly the output of one single render; no state holds one render's
\* output joined to another's.
C15_WholesaleWrites ==
    \/ container = InitialContent
    \/ /\ container.render \in Templates
       /\ container \in SingleRenders[variant][container.render]

\* C15 witness: in the list variant a file detail stands in the container
\* where the list it was asked from stood before.
C15_Witness ==
    /\ variant = "list"
    /\ loc["display"].run = 2
    /\ pc["display"] = "idle"
    /\ Succeeded(res["display"])
    /\ container = displayFileMetadata(res["display"].body)
    /\ container.render = "detail"

\* A row of the field-list detail that reads text under label.
RowReading(label, text) ==
    <<label, ":</span><span class=\"metadata-value\">">> \o text
        \o <<"</span><button class=\"copy-button\" onclick=\"boxApp.copyMetadataValue('">>

\* The scenario: ?file_id=42&client_id=abc&client_secret=xyz on the
\* single-fetch page, the token endpoint answering {access_token: "tok"} and
\* the file endpoint {id: "42", name: "report.pdf", size: 2048}.
ScenarioQuery ==
    << <<K_file_id, <<"4", "2">>>>, <<K_client_id, <<"a", "b", "c">>>>,
       <<K_client_secret, <<"x", "y", "z">>>> >>
ScenarioAnswered ==
    /\ variant = "single"
    /\ query = ScenarioQuery
    /\ att["fetch"] = <<Resp(200, TokenBody(<<"tok">>, UNDEF, UNDEF))>>
    /\ res["fetch"] = Resp(200, SizedFileBody(<<"4", "2">>, <<"report.pdf">>, <<2, 0>>))

\* C16: in the scenario exactly one token request and then one file request
\* for id 42 bearing token "tok" are sent, the container ends with a name row
\* reading "report.pdf" and a size row reading "2 KB", and the button ends
\* enabled.
C16_EndToEnd ==
    ScenarioAnswered =>
        /\ sent["fetch"] = <<TokenRequest("plain"),
                             ResourceRequest("file", <<"tok">>, <<"4", "2">>)>>
        /\ pc["fetch"] = "idle"
        /\ container.render = "detail"
        /\ Includes(container.html, RowReading("File Name", <<"report.pdf">>))
        /\ Includes(container.html, RowReading("Size (bytes)", <<"2", " ", "KB">>))
        /\ Restored("fetch")

\* C16 witness: the scenario has run to its end.
C16_Witness ==
    /\ ScenarioAnswered
    /\ runs = 1
    /\ Includes(container.html, <<"2", " ", "KB">>)
    /\ ~button["fetch"].disabled

\* Both byte counts of the state have been formatted.
Formatted == sizeOut[1] # NoFormat /\ sizeOut[2] # NoFormat

\* a <= b for byte counts.
RECURSIVE DigitsLessEq(_, _)
DigitsLessEq(a, b) ==
    IF a = <<>> THEN TRUE
    ELSE IF Head(a) # Head(b) THEN Head(a) < Head(b)
    ELSE DigitsLessEq(Tail(a), Tail(b))
BytesLessEq(a, b) == Len(a) < Len(b) \/ (Len(a) = Len(b) /\ DigitsLessEq(a, b))

C18_UnitIndex ==
    \A j \in 1..2 :
        (sizeOut[j] # NoFormat /\ sizeIn[j] # <<0>>) =>
            IF Len(sizeIn[j]) <= Len(sizes)
            THEN sizeOut[j].unit = sizes[Len(sizeIn[j])]
            ELSE sizeOut[j].unit = "undefined"

\* The record has a value, neither undefined nor null, under key.
Present(record, key) ==
    IF key = "size" THEN record.size # NoSize ELSE record[key] # UNDEF

\* The labels of the fixed list, and those of the keys the record has a
\* value for, in the order of the list.
ListedLabels == {metadataFields[j].label : j \in DOMAIN metadataFields}
RECURSIVE LabelsPresent(_, _)
LabelsPresent(record, fields) ==
    IF fields = <<>> THEN <<>>
    ELSE (IF Present(record, Head(fields).key) THEN <<Head(fields).label>> ELSE <<>>)
         \o LabelsPresent(record, Tail(fields))

\* The rows of a rendered detail: the chunk each row opens with, and the
\* labels in the order they stand.
RowOpener == "<div class=\"metadata-item\"><span class=\"metadata-name\">"
RowsOf(html) == SelectSeq(html, LAMBDA c : c = RowOpener)
LabelsOf(html) == SelectSeq(html, LAMBDA c : c \in ListedLabels)

\* C19: the field-list displayFileMetadata emits one row for each listed key
\* that has a value in the record, in the order of the list, no row for an
\* absent value or for a key outside the list, and the 'No metadata
\* available for this file.' message exactly when no listed key has a value.
C19_RowsPerField ==
    container # InitialContent =>
        LET record == res["fetch"].body
            expected == LabelsPresent(record, metadataFields)
        IN  /\ LabelsOf(container.html) = expected
            /\ Len(RowsOf(container.html)) = Len(expected)
            /\ (expected = <<>>) <=>
                   (container.html =
                      <<"<div class=\"loading\">No metadata available for this file.</div>">>)
            /\ (expected # <<>> /\ record.message # UNDEF) =>
                   ~Includes(container.html, record.message)

\* C19 witness: a record with an empty id, no name, size 0 and a message
\* key: rows for File ID and Size only.
C19_Witness ==
    /\ res["fetch"].body.id = <<>>
    /\ res["fetch"].body.name = UNDEF
    /\ res["fetch"].body.size = <<0>>
    /\ res["fetch"].body.message # UNDEF
    /\ LabelsOf(container.html) = <<"File ID", "Size (bytes)">>
    /\ Includes(container.html, RowReading("Size (bytes)", <<"0", " ", "Bytes">>))

\* The list requests of this run of fetchFileMetadata.
ListRequests == SelectSeq(sent["fetch"], LAMBDA r : r.kind = "list")

\* listAllFiles has just returned: its request was answered with success.
ListReturned ==
    /\ variant = "list"
    /\ pc["fetch"] = "list"
    /\ pc'["fetch"] = "idle"
    /\ Succeeded(res'["fetch"])

\* The rows of a rendered list: the chunk each row opens with.
FileRowOpener == "<div class=\"file-item\"><div class=\"file-name\">"
FileRowsOf(html) == SelectSeq(html, LAMBDA c : c = FileRowOpener)

\* The container shows the entries of the answered envelope: one row for
\* each, in their order, and their number in the header; or the 'No files
\* found' message when entries is missing or empty.
ListShown ==
    LET entries == res["fetch"].body.entries
    IN  IF ~res["fetch"].body.list \/ entries = <<>>
        THEN container.html =
                 <<"<div class=\"loading\">No files found or accessible to the application.</div>">>
        ELSE /\ Len(FileRowsOf(container.html)) = Len(entries)
             /\ Len(container.handlers) = Len(entries)
             /\ \A j \in 1..Len(entries) :
                    container.handlers[j].fileId = ToStr(entries[j].id)
             /\ Includes(container.html,
                         <<"<div class=\"files-header\"><h3>Files List (">>
                             \o Digits(Len(entries)) \o <<" files)</h3></div>">>)

\* C20: a run of the list variant sends one list request, with limit 100,
\* and no second one whatever the answer carries; and when listAllFiles
\* returns, the container shows the answer's entries as ListShown says.
C20_OneListRequest ==
    [][/\ (variant = "list" =>
              /\ Len(ListRequests') <= 1
              /\ \A j \in 1..Len(ListRequests') : ListRequests'[j].limit = 100)
       /\ (ListReturned => (ListShown' /\ Len(ListRequests') = 1))]_vars

\* C20 witness: an answer that carries a next_marker and one entry has been
\* rendered as a list of one row, with one list request sent.
C20_Witness ==
    /\ variant = "list"
    /\ pc["fetch"] = "idle"
    /\ Succeeded(res["fetch"])
    /\ res["fetch"].body.next_marker # UNDEF
    /\ container.render = "list"
    /\ Len(FileRowsOf(container.html)) = 1
    /\ Len(ListRequests) = 1

\* The page of the authorization-code variant has everything op needs except
\* a usable auth_code.
AuthCodeMissing(op) ==
    /\ variant = "authcode"
    /\ Truthy(getParameter(query, K_client_id))
    /\ Truthy(getParameter(query, K_client_secret))
    /\ (op = "fetch" => Truthy(getParameter(query, K_file_id)))
    /\ ~Truthy(getParameter(query, K_auth_code))

\* C21: in the authorization-code variant, with auth_code absent or empty and
\* the other required parameters present, an invocation of fetchFileMetadata
\* or verifyTokenPermissions sends no request, shows an inline error that
\* names the auth_code parameter, and leaves its button enabled with the
\* idle label.
C21_AuthCodeMissing ==
    [][\A op \in Buttons :
          (Invoked(op) /\ AuthCodeMissing(op)) =>
              /\ sent'[op] = <<>>
              /\ \A q \in Ops \ {op} : sent'[q] = sent[q]
              /\ container'.render = "error"
              /\ Includes(container'.html, K_auth_code)
              /\ button'[op] = [disabled |-> FALSE, label |-> IdleLabel(variant, op)]
              /\ pc'[op] = "idle"]_vars

\* C21 witness: Verify was invoked on a page with an empty auth_code: the
\* error naming auth_code stands in the container, nothing was sent.
C21_Witness ==
    /\ AuthCodeMissing("verify")
    /\ getParameter(query, K_auth_code) = <<>>
    /\ runs = 1
    /\ err["verify"].caught
    /\ Includes(container.html, K_auth_code)
    /\ \A op \in Ops : sent[op] = <<>>
    /\ ~button["verify"].disabled

\* The rows of the parameters-container: the chunk each row opens with.
ParameterRowOpener == "<div class=\"parameter-item\"><span class=\"parameter-name\">"
ParameterRowsOf(html) == SelectSeq(html, LAMBDA c : c = ParameterRowOpener)

\* The container shows one row for each entry of the query string, in order.
RowPerEntry ==
    /\ Len(ParameterRowsOf(parameters.html)) = Len(query)
    /\ Len(parameters.rows) = Len(query)
    /\ \A j \in 1..Len(query) :
           /\ parameters.rows[j].name = query[j][1] \o <<":">>
           /\ parameters.rows[j].value = query[j][2]

\* The container shows the 'No query parameters found' message.
NoParametersShown == parameters.html = NoParameters

\* C22 as amended: where the required elements are in the document, the
\* container shows one row per key/value entry of the current query string,
\* in order, and shows the 'No query parameters found' message if and only
\* if the query string has no entry (it may still have text, such as "&");
\* where an element is missing, container and address text are as the
\* document had them.
C22_RowPerEntry ==
    /\ query = URLSearchParams(search)
    /\ (document.elements =>
           /\ RowPerEntry
           /\ (NoParametersShown <=> query = <<>>)
           /\ currentUrl = LocationHref(query))
    /\ (~document.elements =>
           /\ parameters = InitialParameters
           /\ currentUrl = InitialUrlText)

\* C22 witness: after a popstate the container shows two rows for a query
\* string that has the same key twice.
C22_Witness ==
    /\ document.ready /\ document.elements /\ document.moves = 1
    /\ search = <<"a", "=", "1", "&", "a", "=", "<">>
    /\ Len(parameters.rows) = 2
    /\ parameters.rows[2].value = <<"<">>

\* C22 as stated: the message is shown if and only if the query string is
\* empty.
C22_Original ==
    document.elements => (RowPerEntry /\ (NoParametersShown <=> search = <<>>))

\* C23: in the list variant, while an operation started from the Fetch button
\* still has a request to send, a request outstanding or a container write to
\* make, the button is disabled: with the button enabled, no step of the
\* operation's detail callback (its request, its write) is still to come.
C23_ButtonCoversOperation ==
    [][(variant = "list" /\ ~button["fetch"].disabled) =>
          /\ \A t \in timers : ~TimerFire(t)
          /\ \A t \in timers : \A o \in FileOutcomes :
                 ~(TimerSettle(t, o) /\ container' # container)]_vars

\* This run of op has been granted a token: its last token request was
\* answered with success and a non-empty access_token, which getAccessToken
\* returned.
Granted(op) ==
    /\ att[op] # <<>>
    /\ Succeeded(att[op][Len(att[op])])
    /\ Truthy(att[op][Len(att[op])].body.access_token)
    /\ tokres[op] = Return(att[op][Len(att[op])].body)

\* The resource requests of this run of op come after its token requests,
\* after the grant, and bear the granted token.
GrantedBeforeUse(op) ==
    \A i \in DOMAIN sent[op] :
        sent[op][i].kind # "token" =>
            /\ i > 1
            /\ \A j \in 1..(i - 1) : sent[op][j].kind = "token"
            /\ Granted(op)
            /\ sent[op][i].bearer = tokres[op].body.access_token

\* The token a list run hands on (to its detail callback, to the handlers of
\* the rendered list) is the one that run was granted.
HandedOn == IF Granted("fetch") THEN {tokres["fetch"].body.access_token} ELSE {}

\* C24: a resource request is sent only after a token request of its run was
\* answered with success and a non-empty access_token, and bears that token;
\* a run whose token acquisition failed sends none.  The requests the list
\* variant sends later (detail callback, Get Metadata buttons) bear a token
\* that was handed on by a granted run.
C24_TokenBeforeResource ==
    [][/\ \A op \in Buttons : GrantedBeforeUse(op)'
       /\ \A t \in timers' :
              \/ \E u \in timers : u.token = t.token /\ u.run = t.run
              \/ t.token \in HandedOn'
       /\ \A h \in DOMAIN container'.handlers :
              \/ \E g \in DOMAIN container.handlers :
                     container.handlers[g].token = container'.handlers[h].token
              \/ container'.handlers[h].token \in HandedOn'
       /\ (sent'["display"] # sent["display"] =>
              \A i \in DOMAIN sent'["display"] :
                  \E g \in DOMAIN container.handlers :
                      sent'["display"][i].bearer = container.handlers[g].token)]_vars

\* C24 witness: a list run was granted the token t2 and rendered the list; a
\* Get Metadata button of that list has sent its request with t2.
C24_Witness ==
    /\ variant = "list"
    /\ Granted("fetch")
    /\ tokres["fetch"].body.access_token = <<"t2">>
    /\ Len(sent["fetch"]) = 3
    /\ pc["display"] = "file"
    /\ sent["display"][1].bearer = <<"t2">>

\* The detail callback of a list run is set in this step.
CallbackSet == \E t \in timers' : t \notin timers /\ t.st = "pending"

\* C25: in the list variant with file_id present and a successful listing,
\* the callback that will request the detail is set in the step that writes
\* the list (so the list stands before the detail is requested); when the
\* detail's fetch succeeds the render of the detail (its rows, or the 'No
\* metadata available' message) replaces what the container held;
\* when it fails the container is left as it was and no error is recorded.
C25_ListThenDetail ==
    [][/\ (CallbackSet =>
              /\ variant = "list"
              /\ Truthy(getParameter(query, K_file_id))
              /\ Succeeded(res'["fetch"])
              /\ container'.render \in {"list", "empty"}
              /\ container' # container)
       /\ \A t \in timers :
              /\ (TimerFire(t) => container' = container)
              /\ \A o \in FileOutcomes :
                     TimerSettle(t, o) =>
                         IF Succeeded(o)
                         THEN /\ container' = displayFileMetadata(o.body)
                              /\ container'.render \in {"detail", "empty"}
                              /\ FileRowsOf(container'.html) = <<>>
                              /\ container'.handlers = <<>>
                         ELSE /\ container' = container
                              /\ err' = err]_vars

\* C25 witness: the list was rendered, the callback has requested the detail
\* and is awaiting the answer, and the list of two rows still stands.
C25_Witness ==
    /\ variant = "list"
    /\ \E t \in timers : t.st = "file"
    /\ container.render = "list"
    /\ Len(FileRowsOf(container.html)) = 2
    /\ pc["fetch"] = "idle"

\* The call of getAccessToken of this run of op has completed.
Completed(op) == att[op] # <<>> /\ pc[op] # "token"

\* C26: a call of the two-method getAccessToken that has completed either
\* returned the parsed body of its last response, which had a success status,
\* or threw; it never ended with no value, whatever the two attempts yielded.
C26_ReturnsOrThrows ==
    TwoMethod =>
        \A op \in {"fetch"} :
            Completed(op) =>
                /\ tokres[op].kind \in {"return", "throw"}
                /\ (tokres[op].kind = "return" =>
                        /\ Succeeded(att[op][Len(att[op])])
                        /\ tokres[op].body = att[op][Len(att[op])].body)
                /\ (tokres[op].kind = "throw" =>
                        /\ Len(att[op]) = Len(authMethods)
                        /\ ~Succeeded(att[op][Len(att[op])])
                        /\ err[op].caught)

\* C26 witness: the first attempt was rejected, the second answered success
\* with a body that does not parse, and the call has thrown.
C26_Witness ==
    /\ variant = "list"
    /\ Len(att["fetch"]) = 2
    /\ att["fetch"][1].kind = "reject"
    /\ att["fetch"][2] = BadJson(200, NoTokenBody)
    /\ pc["fetch"] = "idle"
    /\ tokres["fetch"].kind = "throw"

\* The attempt ended in an exception: the request was rejected, or the body
\* of the response (whatever its status) did not parse.
Excepted(o) == o.kind = "reject" \/ ~o.json

\* What the browser threw in that attempt.
ExceptionOf(o) == IF o.kind = "reject" THEN ExcNetwork ELSE ExcJson

\* C27: in the two-method getAccessToken, an exception in the first attempt
\* is swallowed (nothing is raised, nothing is shown) and the second request
\* is sent; an exception in the last attempt is what the call throws, and
\* what the caller catches.
C27_FirstExceptionSwallowed ==
    TwoMethod =>
        \A op \in {"fetch"} :
            /\ (Len(att[op]) >= 1 /\ Excepted(att[op][1]) =>
                    /\ TokenRequests(op) = <<TokenRequest("plain"), TokenRequest("enterprise")>>
                    /\ (Len(att[op]) = 1 =>
                            /\ pc[op] = "token"
                            /\ tokres[op] = NoResult
                            /\ ~err[op].caught))
            /\ (Len(att[op]) = 2 /\ Excepted(att[op][2]) =>
                    /\ tokres[op] = Throw(ExceptionOf(att[op][2]))
                    /\ err[op] = [caught |-> TRUE, msg |-> ExceptionOf(att[op][2])])

\* C27 witness: the first response had status 200 and a body that did not
\* parse, the second request was rejected, and the call threw the rejection.
C27_Witness ==
    /\ variant = "single"
    /\ att["fetch"] = <<BadJson(200, NoTokenBody), Reject(NoTokenBody)>>
    /\ Len(TokenRequests("fetch")) = 2
    /\ tokres["fetch"] = Throw(ExcNetwork)

\* C28: the Copy button of a parameter row copies the value shown in that
\* row: what the last click on a row's button passed to the clipboard is the
\* text of that row's value span.
C28_CopiesShownValue == copied.row # 0 => copied.text = copied.shown

\* C29: for a byte count b with 1 <= b < 1024^5 the number formatFileSize
\* shows (the scaled value rounded to two decimals, here in hundredths) is at
\* least 1 and less than 1024.
C29_NumberInUnitRange ==
    \A j \in 1..2 :
        (sizeOut[j] # NoFormat /\ sizeIn[j] # <<0>> /\ Len(sizeIn[j]) <= 5) =>
            /\ sizeOut[j].number >= 100
            /\ sizeOut[j].number < 100 * UnitBase

\* The size text the size span is to show for a record's size: the
\* placeholder for a record without a size, the formatted size otherwise.
ExpectedSizeText(size) ==
    IF size = NoSize THEN <<"Unknown">> ELSE formatFileSize(size).text

\* C30: in the rendered list, the row of each entry shows 'Unknown' as its
\* size only when the entry has no size; an entry whose size is 0 shows
\* '0 Bytes'.
C30_UnknownOnlyWithoutSize ==
    (/\ variant = "list"
     /\ container.render = "list"
     /\ Succeeded(res["fetch"])) =>
        \A j \in DOMAIN res["fetch"].body.entries :
            LET file == res["fetch"].body.entries[j]
            IN  Includes(container.html,
                    <<"</div><span class=\"file-id\">ID: ">> \o ToStr(file.id)
                        \o <<"</span><span class=\"file-size\">Size: ">>
                        \o ExpectedSizeText(file.size) \o <<"</span><span>Type: undefined ... Modified: Unknown</span>">>)

====
